---- MODULE Spec2Model ----
(***************************************************************************)
(* The blobserver's content-addressed blob cache (blobCache, downloadJob,  *)
(* writeToFile, gcsStore) as a state machine.  Request-handling goroutines *)
(* call GetBlob concurrently; every blocking call and every critical       *)
(* section of the code is one action, and every error return of the code   *)
(* is an outcome the action may choose.                                    *)
(***************************************************************************)
EXTENDS Integers, Sequences, FiniteSets, TLC

\* ---------------------------------------------------------------- bounds
\* Number of concurrent request-handling goroutines.
NumThreads == 2
\* Total number of GetBlob calls made in one execution.
MaxCalls == 3
\* Number of bytes of a blob (one io.Copy chunk per byte).
BlobLen == 2

\* Largest attempt bound a ModelLoader is configured with.
MaxAttemptBound == 5

\* Line 49: the number of attempts of a download before it fails.
maxDownloadAttempts == 5

Threads == 1 .. NumThreads

\* The identifiers requests ask for: "h1" is in the registry, "h2" is not.
Hashes == {"h1", "h2"}

\* The static registry (var knownBlobs): pairs (Hash, URL).
knownBlobs ==
    << [Hash |-> "h1", URL |-> "u1"],
       [Hash |-> "h3", URL |-> "u3"] >>

\* A path of a file system or an object key of the bucket: absent, or a
\* file with its bytes.
NoFile == [exists |-> FALSE, bytes |-> << >>]
File(b) == [exists |-> TRUE, bytes |-> b]

\* The body the origin serves for a URL (resp.Body of a 200 answer).
OriginBody(url) ==
    IF url = "u1" THEN [i \in 1 .. BlobLen |-> i]
                  ELSE [i \in 1 .. BlobLen |-> 20 + i]

\* The bytes of an object that was in the bucket before the process started
\* (written by another replica; the identifier is trusted, not verified).
BucketBody(h) == [i \in 1 .. BlobLen |-> 10 + i]

Nil == 0


VARIABLES
    pc,       \* pc[t]: the line goroutine t stands at
    hash,     \* hash[t]: the identifier of t's current GetBlob call
    err,      \* err[t]: the error t's call carries ("nil" for none)
    handle,   \* handle[t]: the *os.File GetBlob returned (what it opened)
    mutex,    \* blobCache.mutex: Nil or the goroutine holding it
    jobs,     \* blobCache.jobs: hash -> Nil or the job (named by its creator)
    local,    \* the cache directory: hash -> file at <BaseDir>/<hash>
    durable,  \* the bucket: object key -> object
    temp,     \* temp[t]: the temporary file of t's writeToFile call
    src,      \* src[t]: the bytes of the reader t is copying from
    via,      \* via[t]: the caller of t's writeToFile ("gcs" or "origin")
    log,      \* log[t]: what the pipeline of t's current call did, in order
    fetched,  \* fetched[h]: origin fetches of h completed by the process
    ncalls,   \* GetBlob calls started
    cancelled,\* cancelled[t]: the context of t's request (r.Context()) is done
    cut,      \* cut[t]: bytes copied when t's io.Copy was interrupted, or -1
    http,     \* http[t]: the request goroutine t serves, and its status code
    ml,       \* the model launcher's ModelLoader.downloadToFile call
    chat,     \* one OpenAIChat with its SendStreaming call in flight
    agent,    \* one Strategy and the RunOnce call made on it
    launch,   \* the model launcher's run
    kget      \* one KubectlGet invocation

\* The blob cache's part of the state.
cacheVars == << pc, hash, err, handle, mutex, jobs, local, durable, temp, src,
                via, log, fetched, ncalls, cancelled, cut, http >>

vars == << cacheVars, ml, http, chat, agent, launch, kget >>

\* ------------------------------------------------------ blobCache.SourceForBlob
RECURSIVE SourceScan(_, _, _)
SourceScan(i, h, source) ==
    IF i > Len(knownBlobs) THEN source
    ELSE SourceScan(i + 1, h,
                    IF knownBlobs[i].Hash = h THEN knownBlobs[i].URL ELSE source)

\* A lookup that finds nothing.
SourceForBlobNeverFound(h) == [url |-> "", err |-> "unknown"]

\* A lookup that falls back to an entry of the table instead of failing.
SourceForBlobDefault(h) ==
    [url |-> SourceScan(1, h, knownBlobs[Len(knownBlobs)].URL), err |-> "nil"]

SourceForBlob(h) ==
    LET source == SourceScan(1, h, "")
    IN  IF source = "" THEN [url |-> "", err |-> "unknown"]
                       ELSE [url |-> source, err |-> "nil"]

\* The complete bodies a blob h can have: the origin's and the bucket's.
CompleteBodies(h) ==
    {BucketBody(h)} \cup
    {OriginBody(knownBlobs[i].URL) :
        i \in {j \in DOMAIN knownBlobs : knownBlobs[j].Hash = h}}

\* ------------------------------------------------------------------ Init
\* The launcher's downloadToFile is not running.
MlIdle ==
    [pc |-> "idle", max |-> 0, attempt |-> 0, err |-> << "none", 0 >>,
     result |-> << "none", 0 >>,
     dest0 |-> NoFile, dest |-> NoFile, tmp |-> NoFile, made |-> 0,
     files |-> {}, gets |-> 0, oks |-> 0]

\* A goroutine that serves no request.
NoRequest == [method |-> "", path |-> << >>, status |-> 0, body |-> ""]

\* No tool call index: the nil *int of a delta that carries no "index".
NilIndex == [addr |-> 0, val |-> 0]

\* No response: the nil ChatResponse of yield(nil, err).
NoResponse == [Content |-> << >>, ToolCalls |-> << >>, nil |-> TRUE]

\* An openai.ChatCompletionMessage: its role, its content and the id of the
\* tool call it answers ("" for none).
Message(role, content, id) ==
    [Role |-> role, Content |-> content, ToolCallID |-> id]

\* No Send call has been made on the chat.
SendIdle ==
    [pc |-> "idle", n |-> 0, contents |-> << >>, pre |-> << >>,
     req |-> << >>, ret |-> "none"]

\* An OpenAIChat after StartChat, before its first call: the system prompt
\* in its history, no channel, no reader goroutine and no iterator.
ChatIdle ==
    [ret |-> "none",
     history |-> << Message("system", << "s" >>, "") >>,
     send |-> SendIdle,
     rpc |-> "idle", ipc |-> "idle",
     recvd |-> << >>, nalloc |-> 0, fullContent |-> << >>, toolCalls |-> << >>,
     pending |-> NoResponse, produced |-> << >>, streamErr |-> "",
     errs |-> << >>, errsClosed |-> FALSE, responsesClosed |-> FALSE,
     out |-> << >>, ended |-> "", ctxDone |-> FALSE]

\* A Strategy after Init, before its RunOnce call.
AgentIdle ==
    [pc |-> "idle", ret |-> "none", rounds |-> 0,
     response |-> [candidates |-> << >>],
     calls |-> << >>, k |-> 0, functionCallResults |-> << >>,
     round |-> [response |-> [candidates |-> << >>],
                executed |-> << >>, sent |-> << >>]]

\* The launcher's process before run: nothing downloaded, no host looked
\* up, llama-server not started.
LaunchIdle ==
    [pc |-> "idle", ret |-> "none", modelURL |-> FALSE, chunks |-> 0,
     c |-> 0, downloaded |-> << >>, i |-> 0, attempt |-> 0,
     rpcHosts |-> << >>, started |-> FALSE]

\* A KubectlGet with no parameter set, before Execute.
GetIdle ==
    [pc |-> "idle",
     x |-> [Kind |-> "", Name |-> "", Namespace |-> "",
            AllNamespaces |-> FALSE, Output |-> ""],
     command |-> << >>]

\* The blob cache after construction: no job, an empty cache directory, and
\* a bucket that may already hold objects.
CacheInit ==
    /\ pc = [t \in Threads |-> "idle"]
    /\ hash = [t \in Threads |-> "h1"]
    /\ err = [t \in Threads |-> "nil"]
    /\ handle = [t \in Threads |-> NoFile]
    /\ mutex = Nil
    /\ jobs = [h \in Hashes |-> Nil]
    /\ local = [h \in Hashes |-> NoFile]
    /\ durable \in {[h \in Hashes |-> IF h \in S THEN File(BucketBody(h)) ELSE NoFile] :
                        S \in SUBSET Hashes}
    /\ temp = [t \in Threads |-> NoFile]
    /\ src = [t \in Threads |-> << >>]
    /\ via = [t \in Threads |-> "none"]
    /\ log = [t \in Threads |-> << >>]
    /\ fetched = [h \in Hashes |-> 0]
    /\ ncalls = 0
    /\ cancelled = [t \in Threads |-> FALSE]
    /\ cut = [t \in Threads |-> -1]
    /\ http = [t \in Threads |-> NoRequest]

Init ==
    /\ CacheInit
    /\ ml = MlIdle
    /\ chat = ChatIdle
    /\ agent = AgentIdle
    /\ launch = LaunchIdle
    /\ kget = GetIdle

\* The context the pipeline's I/O runs under is done.  downloadBlob runs the
\* job under context.Background() (line 517), which never is.
JobCtxFromRequest(t) == cancelled[t]

JobCtxDone(t) == FALSE

\* job.run returns e to downloadBlob, which goes on to line 519.
RunReturn(t, e) ==
    /\ pc' = [pc EXCEPT ![t] = "relock"]
    /\ err' = [err EXCEPT ![t] = e]

\* The pipeline of t's call did e.
Logged(t, e) == log' = [log EXCEPT ![t] = Append(@, e)]

\* ------------------------------------------------------- blobCache.GetBlob
\* The cache directory itself, which is what the path of the empty
\* identifier names (line 483: filepath.Join(c.BaseDir, "")).
BaseDir == [exists |-> TRUE, bytes |-> << >>, dir |-> TRUE]

\* Line 484: os.Open of the local path of h.
Open(h) == IF h = "" THEN BaseDir ELSE local[h]

\* GetBlob without the open of line 484: every call goes to downloadBlob.
GetBlob_NoFastPath(t) ==
    /\ pc[t] \in {"idle", "done"}
    /\ ncalls < MaxCalls
    /\ ncalls' = ncalls + 1
    /\ \E h \in Hashes : hash' = [hash EXCEPT ![t] = h]
    /\ handle' = [handle EXCEPT ![t] = NoFile]
    /\ pc' = [pc EXCEPT ![t] = "lock"]
    /\ err' = [err EXCEPT ![t] = "nil"]
    /\ log' = [log EXCEPT ![t] = << >>]
    /\ cancelled' = [cancelled EXCEPT ![t] = FALSE]
    /\ cut' = [cut EXCEPT ![t] = -1]
    /\ UNCHANGED << ml, http, chat, agent, launch, kget >>
    /\ UNCHANGED << mutex, jobs, local, durable, temp, src, via, fetched >>

\* Lines 483-489 for the identifier h: os.Open of the local path; a hit
\* returns the open file.  The cache directory is taken to be readable:
\* os.Open fails only when the file does not exist.
GetBlobCall(t, h) ==
    /\ pc[t] \in {"idle", "done"}
    /\ ncalls < MaxCalls
    /\ ncalls' = ncalls + 1
    /\ hash' = [hash EXCEPT ![t] = h]
    /\ IF Open(h).exists
       THEN /\ handle' = [handle EXCEPT ![t] = Open(h)]
            /\ pc' = [pc EXCEPT ![t] = "done"]
       ELSE /\ handle' = [handle EXCEPT ![t] = NoFile]
            /\ pc' = [pc EXCEPT ![t] = "lock"]
    /\ err' = [err EXCEPT ![t] = "nil"]
    /\ log' = [log EXCEPT ![t] = << >>]
    /\ cancelled' = [cancelled EXCEPT ![t] = FALSE]
    /\ cut' = [cut EXCEPT ![t] = -1]
    /\ UNCHANGED << mutex, jobs, local, durable, temp, src, via, fetched, ml, chat, agent, launch, kget >>

\* A GetBlob call for one of the blobs' identifiers (lines 394-395, 437).
GetBlob(t) ==
    /\ \E h \in Hashes : GetBlobCall(t, h)
    /\ UNCHANGED http

\* Line 495: the open after a populate that reported success.
GetBlob_Reopen(t) ==
    /\ pc[t] = "reopen"
    /\ pc' = [pc EXCEPT ![t] = "done"]
    /\ IF local[hash[t]].exists
       THEN /\ handle' = [handle EXCEPT ![t] = local[hash[t]]]
            /\ err' = err
       ELSE /\ handle' = handle
            /\ err' = [err EXCEPT ![t] = "open"]
    /\ UNCHANGED << cancelled, cut, ml, http, chat, agent, launch, kget >>
    /\ UNCHANGED << hash, mutex, jobs, local, durable, temp, src, via, log,
                    fetched, ncalls >>

\* ---------------------------------------------------- blobCache.downloadBlob
\* Line 501: c.mutex.Lock().
downloadBlob_Lock(t) ==
    /\ pc[t] = "lock"
    /\ mutex = Nil
    /\ mutex' = t
    /\ pc' = [pc EXCEPT ![t] = "admit"]
    /\ UNCHANGED << cancelled, cut, ml, http, chat, agent, launch, kget >>
    /\ UNCHANGED << hash, err, handle, jobs, local, durable, temp, src, via,
                    log, fetched, ncalls >>

\* downloadBlob without the unlock of line 504: the rejected call returns
\* with the mutex held.
downloadBlob_AdmitRejectKeepsLock(t) ==
    /\ pc[t] = "admit"
    /\ mutex = t
    /\ IF jobs[hash[t]] # Nil
       THEN /\ mutex' = mutex
            /\ pc' = [pc EXCEPT ![t] = "done"]
            /\ err' = [err EXCEPT ![t] = "inprogress"]
            /\ jobs' = jobs
       ELSE /\ mutex' = Nil
            /\ pc' = [pc EXCEPT ![t] = "Download"]
            /\ err' = err
            /\ jobs' = [jobs EXCEPT ![hash[t]] = t]
    /\ UNCHANGED << cancelled, cut, ml, http, chat, agent, launch, kget >>
    /\ UNCHANGED << hash, handle, local, durable, temp, src, via, log,
                    fetched, ncalls >>

\* downloadBlob without the unlock of line 515: the job runs with the mutex
\* held.
downloadBlob_AdmitKeepsLock(t) ==
    /\ pc[t] = "admit"
    /\ mutex = t
    /\ IF jobs[hash[t]] # Nil
       THEN /\ mutex' = Nil
            /\ pc' = [pc EXCEPT ![t] = "done"]
            /\ err' = [err EXCEPT ![t] = "inprogress"]
            /\ jobs' = jobs
       ELSE /\ mutex' = mutex
            /\ pc' = [pc EXCEPT ![t] = "Download"]
            /\ err' = err
            /\ jobs' = [jobs EXCEPT ![hash[t]] = t]
    /\ UNCHANGED << cancelled, cut, ml, http, chat, agent, launch, kget >>
    /\ UNCHANGED << hash, handle, local, durable, temp, src, via, log,
                    fetched, ncalls >>

\* downloadBlob without the check of line 503: a job is always registered.
downloadBlob_AdmitNoCheck(t) ==
    /\ pc[t] = "admit"
    /\ mutex = t
    /\ mutex' = Nil
    /\ pc' = [pc EXCEPT ![t] = "Download"]
    /\ jobs' = [jobs EXCEPT ![hash[t]] = t]
    /\ UNCHANGED << cancelled, cut, ml, http, chat, agent, launch, kget >>
    /\ UNCHANGED << hash, err, handle, local, durable, temp, src, via, log,
                    fetched, ncalls >>

\* downloadBlob with the delete of line 520 deferred from the top of the
\* function: the rejected call removes the running job's entry.
downloadBlob_AdmitDeferDelete(t) ==
    /\ pc[t] = "admit"
    /\ mutex = t
    /\ mutex' = Nil
    /\ IF jobs[hash[t]] # Nil
       THEN /\ pc' = [pc EXCEPT ![t] = "done"]
            /\ err' = [err EXCEPT ![t] = "inprogress"]
            /\ jobs' = [jobs EXCEPT ![hash[t]] = Nil]
       ELSE /\ pc' = [pc EXCEPT ![t] = "Download"]
            /\ err' = err
            /\ jobs' = [jobs EXCEPT ![hash[t]] = t]
    /\ UNCHANGED << cancelled, cut, ml, http, chat, agent, launch, kget >>
    /\ UNCHANGED << hash, handle, local, durable, temp, src, via, log,
                    fetched, ncalls >>

\* Lines 502-515: under the lock, reject when a job is registered, else
\* register a new job; unlock.
downloadBlob_Admit(t) ==
    /\ pc[t] = "admit"
    /\ mutex = t
    /\ mutex' = Nil
    /\ IF jobs[hash[t]] # Nil
       THEN /\ pc' = [pc EXCEPT ![t] = "done"]
            /\ err' = [err EXCEPT ![t] = "inprogress"]
            /\ jobs' = jobs
       ELSE /\ pc' = [pc EXCEPT ![t] = "Download"]
            /\ err' = err
            /\ jobs' = [jobs EXCEPT ![hash[t]] = t]
    /\ UNCHANGED << cancelled, cut, ml, http, chat, agent, launch, kget >>
    /\ UNCHANGED << hash, handle, local, durable, temp, src, via, log,
                    fetched, ncalls >>

\* Line 519: c.mutex.Lock() after job.run returned.  What is recorded about
\* the run that ended (cut, cancelled) is dropped here.
downloadBlob_Relock(t) ==
    /\ pc[t] = "relock"
    /\ mutex = Nil
    /\ mutex' = t
    /\ pc' = [pc EXCEPT ![t] = "delete"]
    /\ cut' = [cut EXCEPT ![t] = -1]
    /\ cancelled' = [cancelled EXCEPT ![t] = FALSE]
    /\ UNCHANGED << ml, http, chat, agent, launch, kget >>
    /\ UNCHANGED << hash, err, handle, jobs, local, durable, temp, src, via,
                    log, fetched, ncalls >>

\* GetBlob calling downloadBlob again after it failed (while the call has
\* done little so far).
downloadBlob_DeleteRetries(t) ==
    /\ pc[t] = "delete"
    /\ mutex = t
    /\ mutex' = Nil
    /\ jobs' = [jobs EXCEPT ![hash[t]] = Nil]
    /\ IF err[t] = "nil"
       THEN pc' = [pc EXCEPT ![t] = "reopen"] /\ err' = err
       ELSE IF Len(log[t]) < 3
            THEN pc' = [pc EXCEPT ![t] = "lock"] /\ err' = [err EXCEPT ![t] = "nil"]
            ELSE pc' = [pc EXCEPT ![t] = "done"] /\ err' = err
    /\ UNCHANGED << cancelled, cut, ml, http, chat, agent, launch, kget >>
    /\ UNCHANGED << hash, handle, local, durable, temp, src, via, log,
                    fetched, ncalls >>

\* downloadBlob returning run's error before the delete of line 520.
downloadBlob_DeleteOnSuccessOnly(t) ==
    /\ pc[t] = "delete"
    /\ mutex = t
    /\ mutex' = Nil
    /\ jobs' = IF err[t] = "nil" THEN [jobs EXCEPT ![hash[t]] = Nil] ELSE jobs
    /\ pc' = [pc EXCEPT ![t] = IF err[t] = "nil" THEN "reopen" ELSE "done"]
    /\ UNCHANGED << cancelled, cut, ml, http, chat, agent, launch, kget >>
    /\ UNCHANGED << hash, err, handle, local, durable, temp, src, via, log,
                    fetched, ncalls >>

\* Lines 520-522 and 491-493: delete the job, unlock, return run's error;
\* GetBlob returns it, or goes on to open the file.
downloadBlob_Delete(t) ==
    /\ pc[t] = "delete"
    /\ mutex = t
    /\ mutex' = Nil
    /\ jobs' = [jobs EXCEPT ![hash[t]] = Nil]
    /\ pc' = [pc EXCEPT ![t] = IF err[t] = "nil" THEN "reopen" ELSE "done"]
    /\ UNCHANGED << cancelled, cut, ml, http, chat, agent, launch, kget >>
    /\ UNCHANGED << hash, err, handle, local, durable, temp, src, via, log,
                    fetched, ncalls >>

\* ------------------------------------------------------------- writeToFile
\* writeToFile returns an error to its caller: gcsStore.Download wraps it
\* (line 722) and run returns "downloading from GCS" (line 541);
\* downloadFromSource returns it (line 589) and run returns "downloading
\* blob" (line 555).
WriteFailed(t) ==
    /\ RunReturn(t, IF via[t] = "gcs" THEN "gcs" ELSE "origin")
    /\ Logged(t, IF via[t] = "gcs" THEN "download.err" ELSE "fetch.err")
    /\ src' = [src EXCEPT ![t] = << >>]
    /\ via' = [via EXCEPT ![t] = "none"]

\* writeToFile creating its file at the destination path itself.
writeToFile_CreateInPlace(t) ==
    /\ pc[t] = "writeToFile"
    /\ \/ /\ temp' = [temp EXCEPT ![t] = File(<< >>)]
          /\ local' = [local EXCEPT ![hash[t]] = File(<< >>)]
          /\ pc' = [pc EXCEPT ![t] = "Copy"]
          /\ UNCHANGED << err, src, via, log >>
       \/ /\ temp' = temp
          /\ local' = local
          /\ WriteFailed(t)
    /\ UNCHANGED << cancelled, cut, ml, http, chat, agent, launch, kget >>
    /\ UNCHANGED << hash, handle, mutex, jobs, durable, fetched, ncalls >>

\* Lines 600-604: os.CreateTemp in the destination's directory.
writeToFile_Create(t) ==
    /\ pc[t] = "writeToFile"
    /\ \/ /\ temp' = [temp EXCEPT ![t] = File(<< >>)]
          /\ pc' = [pc EXCEPT ![t] = "Copy"]
          /\ UNCHANGED << err, src, via, log >>
       \/ /\ temp' = temp
          /\ WriteFailed(t)
    /\ UNCHANGED << cancelled, cut, ml, http, chat, agent, launch, kget >>
    /\ UNCHANGED << hash, handle, mutex, jobs, local, durable, fetched, ncalls >>

\* writeToFile whose interrupted copy leaves what was copied at the
\* destination.
writeToFile_CopyKeepsPartial(t) ==
    /\ pc[t] = "Copy"
    /\ \/ /\ ~JobCtxDone(t)
          /\ Len(temp[t].bytes) < Len(src[t])
          /\ temp' = [temp EXCEPT
                        ![t] = File(Append(temp[t].bytes,
                                           src[t][Len(temp[t].bytes) + 1]))]
          /\ UNCHANGED << pc, err, src, via, log, cut, local >>
       \/ /\ Len(temp[t].bytes) = Len(src[t])
          /\ pc' = [pc EXCEPT ![t] = "Close"]
          /\ UNCHANGED << temp, err, src, via, log, cut, local >>
       \/ /\ temp' = [temp EXCEPT ![t] = NoFile]
          /\ local' = [local EXCEPT ![hash[t]] = temp[t]]
          /\ cut' = [cut EXCEPT ![t] = Len(temp[t].bytes)]
          /\ WriteFailed(t)
    /\ UNCHANGED << cancelled, ml, http, chat, agent, launch, kget >>
    /\ UNCHANGED << hash, handle, mutex, jobs, durable, fetched, ncalls >>

\* Lines 624-627: io.Copy, one chunk per step, up to the reader's EOF; a read
\* or write error (the reader's context being done is one) ends the copy,
\* and the deferred functions (lines 607-622) close and remove the temporary
\* file.
writeToFile_Copy(t) ==
    /\ pc[t] = "Copy"
    /\ \/ /\ ~JobCtxDone(t)
          /\ Len(temp[t].bytes) < Len(src[t])
          /\ temp' = [temp EXCEPT
                        ![t] = File(Append(temp[t].bytes,
                                           src[t][Len(temp[t].bytes) + 1]))]
          /\ UNCHANGED << pc, err, src, via, log, cut >>
       \/ /\ Len(temp[t].bytes) = Len(src[t])
          /\ pc' = [pc EXCEPT ![t] = "Close"]
          /\ UNCHANGED << temp, err, src, via, log, cut >>
       \/ /\ temp' = [temp EXCEPT ![t] = NoFile]
          /\ cut' = [cut EXCEPT ![t] = Len(temp[t].bytes)]
          /\ WriteFailed(t)
    /\ UNCHANGED << cancelled, ml, http, chat, agent, launch, kget >>
    /\ UNCHANGED << hash, handle, mutex, jobs, local, durable, fetched, ncalls >>

\* writeToFile returning the error of Close without the deferred remove.
writeToFile_CloseLeavesTemp(t) ==
    /\ pc[t] = "Close"
    /\ \/ /\ pc' = [pc EXCEPT ![t] = "Rename"]
          /\ UNCHANGED << temp, err, src, via, log >>
       \/ /\ temp' = temp
          /\ WriteFailed(t)
    /\ UNCHANGED << cancelled, cut, ml, http, chat, agent, launch, kget >>
    /\ UNCHANGED << hash, handle, mutex, jobs, local, durable, fetched, ncalls >>

\* Lines 629-632: tempFile.Close(); on an error the temporary file is removed.
writeToFile_Close(t) ==
    /\ pc[t] = "Close"
    /\ \/ /\ pc' = [pc EXCEPT ![t] = "Rename"]
          /\ UNCHANGED << temp, err, src, via, log >>
       \/ /\ temp' = [temp EXCEPT ![t] = NoFile]
          /\ WriteFailed(t)
    /\ UNCHANGED << cancelled, cut, ml, http, chat, agent, launch, kget >>
    /\ UNCHANGED << hash, handle, mutex, jobs, local, durable, fetched, ncalls >>

\* writeToFile whose cleanup after a failed rename removes the destination
\* path instead of the temporary file's.
writeToFile_RenameRemovesDest(t) ==
    /\ pc[t] = "Rename"
    /\ \/ /\ local' = [local EXCEPT ![hash[t]] = temp[t]]
          /\ temp' = [temp EXCEPT ![t] = NoFile]
          /\ src' = [src EXCEPT ![t] = << >>]
          /\ via' = [via EXCEPT ![t] = "none"]
          /\ IF via[t] = "gcs"
             THEN /\ RunReturn(t, "nil")
                  /\ Logged(t, "download.ok")
                  /\ fetched' = fetched
             ELSE /\ pc' = [pc EXCEPT ![t] = "Upload"]
                  /\ err' = err
                  /\ Logged(t, "fetch.ok")
                  /\ fetched' = [fetched EXCEPT ![hash[t]] = @ + 1]
       \/ /\ local' = [local EXCEPT ![hash[t]] = NoFile]
          /\ temp' = [temp EXCEPT ![t] = NoFile]
          /\ fetched' = fetched
          /\ WriteFailed(t)
    /\ UNCHANGED << cancelled, cut, ml, http, chat, agent, launch, kget >>
    /\ UNCHANGED << hash, handle, mutex, jobs, durable, ncalls >>

\* run without the return of line 544: after a durable download it goes on
\* to the origin tier.
writeToFile_RenameFallsThrough(t) ==
    /\ pc[t] = "Rename"
    /\ \/ /\ local' = [local EXCEPT ![hash[t]] = temp[t]]
          /\ temp' = [temp EXCEPT ![t] = NoFile]
          /\ src' = [src EXCEPT ![t] = << >>]
          /\ via' = [via EXCEPT ![t] = "none"]
          /\ err' = err
          /\ IF via[t] = "gcs"
             THEN /\ pc' = [pc EXCEPT ![t] = "SourceForBlob"]
                  /\ Logged(t, "download.ok")
                  /\ fetched' = fetched
             ELSE /\ pc' = [pc EXCEPT ![t] = "Upload"]
                  /\ Logged(t, "fetch.ok")
                  /\ fetched' = [fetched EXCEPT ![hash[t]] = @ + 1]
       \/ /\ local' = local
          /\ temp' = [temp EXCEPT ![t] = NoFile]
          /\ fetched' = fetched
          /\ WriteFailed(t)
    /\ UNCHANGED << cancelled, cut, ml, http, chat, agent, launch, kget >>
    /\ UNCHANGED << hash, handle, mutex, jobs, durable, ncalls >>

\* writeToFile dropping the error of os.Rename (line 634): it reports success
\* whether or not the file reached the destination.
writeToFile_RenameUnchecked(t) ==
    /\ pc[t] = "Rename"
    /\ \/ local' = [local EXCEPT ![hash[t]] = temp[t]]
       \/ local' = local
    /\ temp' = [temp EXCEPT ![t] = NoFile]
    /\ src' = [src EXCEPT ![t] = << >>]
    /\ via' = [via EXCEPT ![t] = "none"]
    /\ IF via[t] = "gcs"
       THEN /\ RunReturn(t, "nil")
            /\ Logged(t, "download.ok")
            /\ fetched' = fetched
       ELSE /\ pc' = [pc EXCEPT ![t] = "Upload"]
            /\ err' = err
            /\ Logged(t, "fetch.ok")
            /\ fetched' = [fetched EXCEPT ![hash[t]] = @ + 1]
    /\ UNCHANGED << cancelled, cut, ml, http, chat, agent, launch, kget >>
    /\ UNCHANGED << hash, handle, mutex, jobs, durable, ncalls >>

\* Lines 634-639: os.Rename of the temporary file onto the destination.  On
\* success gcsStore.Download returns nil and run returns nil (line 544), or
\* downloadFromSource returns nil and run goes on to the upload (line 557).
writeToFile_Rename(t) ==
    /\ pc[t] = "Rename"
    /\ \/ /\ local' = [local EXCEPT ![hash[t]] = temp[t]]
          /\ temp' = [temp EXCEPT ![t] = NoFile]
          /\ src' = [src EXCEPT ![t] = << >>]
          /\ via' = [via EXCEPT ![t] = "none"]
          /\ IF via[t] = "gcs"
             THEN /\ RunReturn(t, "nil")
                  /\ Logged(t, "download.ok")
                  /\ fetched' = fetched
             ELSE /\ pc' = [pc EXCEPT ![t] = "Upload"]
                  /\ err' = err
                  /\ Logged(t, "fetch.ok")
                  /\ fetched' = [fetched EXCEPT ![hash[t]] = @ + 1]
       \/ /\ local' = local
          /\ temp' = [temp EXCEPT ![t] = NoFile]
          /\ fetched' = fetched
          /\ WriteFailed(t)
    /\ UNCHANGED << cancelled, cut, ml, http, chat, agent, launch, kget >>
    /\ UNCHANGED << hash, handle, mutex, jobs, durable, ncalls >>

\* run treating every error of the durable download as a miss.
gcsStore_DownloadErrAsMiss(t) ==
    /\ pc[t] = "Download"
    /\ \/ /\ \E cause \in {"client", "transport"} :
                pc' = [pc EXCEPT ![t] = "SourceForBlob"]
          /\ Logged(t, "download.err")
          /\ UNCHANGED << err, src, via >>
       \/ /\ durable[hash[t]].exists
          /\ src' = [src EXCEPT ![t] = durable[hash[t]].bytes]
          /\ via' = [via EXCEPT ![t] = "gcs"]
          /\ pc' = [pc EXCEPT ![t] = "writeToFile"]
          /\ UNCHANGED << err, log >>
       \/ /\ ~durable[hash[t]].exists
          /\ pc' = [pc EXCEPT ![t] = "SourceForBlob"]
          /\ Logged(t, "download.notexist")
          /\ UNCHANGED << err, src, via >>
    /\ UNCHANGED << cancelled, cut, ml, http, chat, agent, launch, kget >>
    /\ UNCHANGED << hash, handle, mutex, jobs, local, durable, temp, fetched,
                    ncalls >>

\* ---------------------------------------------------------- gcsStore.Download
\* Lines 703-718: storage.NewClient and NewReader.  A missing object is
\* storage.ErrObjectNotExist, which run lets fall through to the origin
\* (lines 538-539); every other error makes run return (line 541).
gcsStore_Download(t) ==
    /\ pc[t] = "Download"
    /\ \/ /\ \E cause \in {"client", "transport"} : RunReturn(t, "gcs")
          /\ Logged(t, "download.err")
          /\ UNCHANGED << src, via >>
       \/ /\ ~JobCtxDone(t)
          /\ durable[hash[t]].exists
          /\ src' = [src EXCEPT ![t] = durable[hash[t]].bytes]
          /\ via' = [via EXCEPT ![t] = "gcs"]
          /\ pc' = [pc EXCEPT ![t] = "writeToFile"]
          /\ UNCHANGED << err, log >>
       \/ /\ ~JobCtxDone(t)
          /\ ~durable[hash[t]].exists
          /\ pc' = [pc EXCEPT ![t] = "SourceForBlob"]
          /\ Logged(t, "download.notexist")
          /\ UNCHANGED << err, src, via >>
    /\ UNCHANGED << cancelled, cut, ml, http, chat, agent, launch, kget >>
    /\ UNCHANGED << hash, handle, mutex, jobs, local, durable, temp, fetched,
                    ncalls >>

\* ------------------------------------------------------------ downloadJob.run
\* Lines 549-552: the registry lookup.
run_SourceForBlob(t) ==
    /\ pc[t] = "SourceForBlob"
    /\ IF SourceForBlob(hash[t]).err # "nil"
       THEN /\ RunReturn(t, "unknown")
            /\ Logged(t, "lookup.unknown")
       ELSE /\ pc' = [pc EXCEPT ![t] = "downloadFromSource"]
            /\ err' = err
            /\ Logged(t, "lookup.ok")
    /\ UNCHANGED << cancelled, cut, ml, http, chat, agent, launch, kget >>
    /\ UNCHANGED << hash, handle, mutex, jobs, local, durable, temp, src, via,
                    fetched, ncalls >>

\* Lines 569-587: one GET of the source URL; a transport error or a status
\* other than 200 is returned, else the body goes to writeToFile.
downloadFromSource(t) ==
    /\ pc[t] = "downloadFromSource"
    /\ \/ /\ \E cause \in {"transport", "status"} : RunReturn(t, "origin")
          /\ log' = [log EXCEPT ![t] = @ \o << "get", "fetch.err" >>]
          /\ UNCHANGED << src, via >>
       \/ /\ ~JobCtxDone(t)
          /\ src' = [src EXCEPT ![t] = OriginBody(SourceForBlob(hash[t]).url)]
          /\ via' = [via EXCEPT ![t] = "origin"]
          /\ pc' = [pc EXCEPT ![t] = "writeToFile"]
          /\ Logged(t, "get")
          /\ err' = err
    /\ UNCHANGED << cancelled, cut, ml, http, chat, agent, launch, kget >>
    /\ UNCHANGED << hash, handle, mutex, jobs, local, durable, temp, fetched,
                    ncalls >>

\* Upload without the Attrs call of line 665: the object is always written.
gcsStore_UploadNoCheck(t) ==
    /\ pc[t] = "Upload"
    /\ \/ /\ RunReturn(t, "upload")
          /\ Logged(t, "upload.err")
          /\ src' = src
       \/ /\ ~JobCtxDone(t)
          /\ local[hash[t]].exists
          /\ src' = [src EXCEPT ![t] = local[hash[t]].bytes]
          /\ pc' = [pc EXCEPT ![t] = "UploadWrite"]
          /\ UNCHANGED << err, log >>
    /\ UNCHANGED << cancelled, cut, ml, http, chat, agent, launch, kget >>
    /\ UNCHANGED << hash, handle, mutex, jobs, local, durable, temp, via,
                    fetched, ncalls >>

\* Upload with the test of line 675 inverted: a missing object ends the
\* upload with success and nothing is written.
gcsStore_UploadSkipsWrite(t) ==
    /\ pc[t] = "Upload"
    /\ \/ /\ \E cause \in {"client", "attrs"} : RunReturn(t, "upload")
          /\ Logged(t, "upload.err")
          /\ src' = src
       \/ /\ local[hash[t]].exists
          /\ ~durable[hash[t]].exists
          /\ RunReturn(t, "nil")
          /\ Logged(t, "upload.skip")
          /\ src' = src
       \/ /\ local[hash[t]].exists
          /\ durable[hash[t]].exists
          /\ src' = [src EXCEPT ![t] = local[hash[t]].bytes]
          /\ pc' = [pc EXCEPT ![t] = "UploadWrite"]
          /\ UNCHANGED << err, log >>
    /\ UNCHANGED << cancelled, cut, ml, http, chat, agent, launch, kget >>
    /\ UNCHANGED << hash, handle, mutex, jobs, local, durable, temp, via,
                    fetched, ncalls >>

\* ------------------------------------------------------------ gcsStore.Upload
\* Lines 649-678: open the source file (it exists: writeToFile just renamed
\* it into place), create the client, ask for the object's attributes; an
\* existing object ends the upload with success.
gcsStore_Upload(t) ==
    /\ pc[t] = "Upload"
    /\ \/ /\ \E cause \in {"client", "attrs"} : RunReturn(t, "upload")
          /\ Logged(t, "upload.err")
          /\ src' = src
       \/ /\ ~JobCtxDone(t)
          /\ local[hash[t]].exists
          /\ durable[hash[t]].exists
          /\ RunReturn(t, "nil")
          /\ Logged(t, "upload.skip")
          /\ src' = src
       \/ /\ ~JobCtxDone(t)
          /\ local[hash[t]].exists
          /\ ~durable[hash[t]].exists
          /\ src' = [src EXCEPT ![t] = local[hash[t]].bytes]
          /\ pc' = [pc EXCEPT ![t] = "UploadWrite"]
          /\ UNCHANGED << err, log >>
    /\ UNCHANGED << cancelled, cut, ml, http, chat, agent, launch, kget >>
    /\ UNCHANGED << hash, handle, mutex, jobs, local, durable, temp, via,
                    fetched, ncalls >>

\* run ignoring the error of the upload (line 557).
gcsStore_UploadWriteIgnoresErr(t) ==
    /\ pc[t] = "UploadWrite"
    /\ src' = [src EXCEPT ![t] = << >>]
    /\ \/ /\ \E cause \in {"copy", "close"} : RunReturn(t, "nil")
          /\ Logged(t, "upload.err")
          /\ durable' = durable
       \/ /\ durable' = [durable EXCEPT ![hash[t]] = File(src[t])]
          /\ RunReturn(t, "nil")
          /\ Logged(t, "upload.ok")
    /\ UNCHANGED << cancelled, cut, ml, http, chat, agent, launch, kget >>
    /\ UNCHANGED << hash, handle, mutex, jobs, local, temp, via, fetched,
                    ncalls >>

\* Lines 683-694: copy the file into the object writer and close it; the
\* object exists once Close succeeded.
gcsStore_UploadWrite(t) ==
    /\ pc[t] = "UploadWrite"
    /\ src' = [src EXCEPT ![t] = << >>]
    /\ \/ /\ \E cause \in {"copy", "close"} : RunReturn(t, "upload")
          /\ Logged(t, "upload.err")
          /\ durable' = durable
       \/ /\ ~JobCtxDone(t)
          /\ durable' = [durable EXCEPT ![hash[t]] = File(src[t])]
          /\ RunReturn(t, "nil")
          /\ Logged(t, "upload.ok")
    /\ UNCHANGED << cancelled, cut, ml, http, chat, agent, launch, kget >>
    /\ UNCHANGED << hash, handle, mutex, jobs, local, temp, via, fetched,
                    ncalls >>

Next ==
    \E t \in Threads :
        \/ GetBlob(t)
        \/ GetBlob_Reopen(t)
        \/ downloadBlob_Lock(t)
        \/ downloadBlob_Admit(t)
        \/ downloadBlob_Relock(t)
        \/ downloadBlob_Delete(t)
        \/ gcsStore_Download(t)
        \/ writeToFile_Create(t)
        \/ writeToFile_Copy(t)
        \/ writeToFile_Close(t)
        \/ writeToFile_Rename(t)
        \/ run_SourceForBlob(t)
        \/ downloadFromSource(t)
        \/ gcsStore_Upload(t)
        \/ gcsStore_UploadWrite(t)

Spec == Init /\ [][Next]_vars

\* ------------------------------------------------------------- fairness
\* What goroutine t does next once it is inside a GetBlob call.
Continue(t) ==
    \/ GetBlob_Reopen(t)
    \/ downloadBlob_Lock(t)
    \/ downloadBlob_Admit(t)
    \/ downloadBlob_Relock(t)
    \/ downloadBlob_Delete(t)
    \/ gcsStore_Download(t)
    \/ writeToFile_Create(t)
    \/ writeToFile_Copy(t)
    \/ writeToFile_Close(t)
    \/ writeToFile_Rename(t)
    \/ run_SourceForBlob(t)
    \/ downloadFromSource(t)
    \/ gcsStore_Upload(t)
    \/ gcsStore_UploadWrite(t)

\* Total number of GetBlob calls made in one execution under fairness.
MaxFairCalls == 2

NextFair ==
    \E t \in Threads :
        \/ ncalls < MaxFairCalls /\ GetBlob(t)
        \/ Continue(t)

\* The blob cache with file, bucket and origin operations that return and
\* goroutines that keep running: as long as some goroutine inside a call
\* can take its next step, one of them does.  (Calls being finitely many
\* here, this makes each goroutine finish its call.)
SpecFair ==
    Init /\ [][NextFair]_vars /\ WF_vars(\E t \in Threads : Continue(t))

\* -------------------------------------------------- the request's context
\* The lines of downloadJob.run and of the functions it calls.
RunPcs ==
    {"Download", "writeToFile", "Copy", "Close", "Rename", "SourceForBlob",
     "downloadFromSource", "Upload", "UploadWrite"}

\* t is executing downloadJob.run (line 518).
InRun(t) == pc[t] \in RunPcs

\* Line 431: the context of t's request is cancelled (the client went away,
\* or a deadline passed) while the job that the request started is running.
Cancel(t) ==
    /\ InRun(t)
    /\ ~cancelled[t]
    /\ cancelled' = [cancelled EXCEPT ![t] = TRUE]
    /\ UNCHANGED << pc, hash, err, handle, mutex, jobs, local, durable, temp,
                    src, via, log, fetched, ncalls, cut, ml, http, chat, agent, launch, kget >>

NextCancel == Next \/ \E t \in Threads : Cancel(t)

\* The blob cache with requests that may be cancelled.
SpecCancel == Init /\ [][NextCancel]_vars

\* ------------------------------------------------------- another replica
\* Another process sharing the bucket uploads an object that is not there
\* yet (its own gcsStore.Upload, lines 664-694).
ReplicaUpload(h) ==
    /\ ~durable[h].exists
    /\ \E b \in CompleteBodies(h) : durable' = [durable EXCEPT ![h] = File(b)]
    /\ UNCHANGED << pc, hash, err, handle, mutex, jobs, local, temp, src, via,
                    log, fetched, ncalls, cancelled, cut, ml, http, chat, agent, launch, kget >>

NextReplica == Next \/ \E h \in Hashes : ReplicaUpload(h)

\* The blob cache beside other replicas that write to the same bucket.
SpecReplica == Init /\ [][NextReplica]_vars

\* ------------------------------------------- ModelLoader.downloadToFile
\* The launcher's download of one file from the blobserver.  ml.pc is the
\* position of the call, ml.max is l.maxDownloadAttempts, ml.attempt the
\* loop's counter, ml.err what the last downloadToFileNoRetry returned (an
\* error is named by what failed and by the attempt it failed in), ml.result
\* what downloadToFile returned, ml.dest the file at destPath and ml.dest0
\* what it was when the call began, ml.tmp the temporary file of the attempt,
\* ml.made the number of temporary files created (each under a name of its
\* own), ml.files the names of those that exist, ml.gets the requests sent
\* and ml.oks the attempts that succeeded.

\* The attempt bounds a ModelLoader is given.
AttemptBounds == (0 - 1) .. MaxAttemptBound

\* The body the blobserver sends with a 200.
ResponseBody == [i \in 1 .. BlobLen |-> 30 + i]

\* The body of a file left at destPath by an earlier run.
PreviousBody == [i \in 1 .. BlobLen |-> 40 + i]

\* What failed, and in which attempt.
Error(kind, attempt) == << kind, attempt >>

NoError == Error("nil", 0)

\* downloadToFileNoRetry returns e to the loop of downloadToFile; the
\* deferred functions of lines 196-212 have closed and removed the
\* temporary file.
NoRetryFailed(e) ==
    ml' = [ml EXCEPT !.pc = "check", !.err = Error(e, ml.attempt),
                     !.tmp = NoFile, !.files = ml.files \ {ml.made}]

\* Lines 165-168: the call, with an attempt bound and a destination that may
\* already hold a file.
downloadToFile(n, d) ==
    /\ ml.pc = "idle"
    /\ ml' = [ml EXCEPT !.pc = "loop", !.max = n, !.attempt = 0,
                        !.dest0 = d, !.dest = d]
    /\ UNCHANGED << cacheVars, chat, agent, launch, kget >>

\* Lines 169-172: attempt++ and the call of downloadToFileNoRetry.
downloadToFile_Attempt ==
    /\ ml.pc = "loop"
    /\ ml' = [ml EXCEPT !.pc = "CreateTemp", !.attempt = ml.attempt + 1,
                        !.err = Error("none", 0)]
    /\ UNCHANGED << cacheVars, chat, agent, launch, kget >>

\* Lines 189-193: os.CreateTemp in the destination's directory.
downloadToFileNoRetry_CreateTemp ==
    /\ ml.pc = "CreateTemp"
    /\ \/ ml' = [ml EXCEPT !.pc = "Do", !.made = ml.made + 1,
                           !.tmp = File(<< >>),
                           !.files = ml.files \cup {ml.made + 1}]
       \/ ml' = [ml EXCEPT !.pc = "check",
                           !.err = Error("createtemp", ml.attempt)]
    /\ UNCHANGED << cacheVars, chat, agent, launch, kget >>

\* Lines 254-270: the request is built and sent; a transport error and a
\* status other than 200 are errors.
downloadToWriter_Do ==
    /\ ml.pc = "Do"
    /\ \/ NoRetryFailed("request") /\ UNCHANGED << cacheVars, chat, agent, launch, kget >>
       \/ \E e \in {"do", "status"} :
             /\ ml' = [ml EXCEPT !.pc = "check", !.err = Error(e, ml.attempt),
                                 !.tmp = NoFile,
                                 !.files = ml.files \ {ml.made},
                                 !.gets = ml.gets + 1]
             /\ UNCHANGED << cacheVars, chat, agent, launch, kget >>
       \/ /\ ml' = [ml EXCEPT !.pc = "Copy", !.gets = ml.gets + 1]
          /\ UNCHANGED << cacheVars, chat, agent, launch, kget >>

\* downloadToWriter's copy whose error path leaves the temporary file
\* behind.
downloadToWriter_CopyLeavesTemp ==
    /\ ml.pc = "Copy"
    /\ \/ /\ Len(ml.tmp.bytes) < Len(ResponseBody)
          /\ ml' = [ml EXCEPT !.tmp = File(Append(ml.tmp.bytes,
                                  ResponseBody[Len(ml.tmp.bytes) + 1]))]
       \/ /\ Len(ml.tmp.bytes) = Len(ResponseBody)
          /\ ml' = [ml EXCEPT !.pc = "Close"]
       \/ ml' = [ml EXCEPT !.pc = "check", !.err = Error("copy", ml.attempt)]
    /\ UNCHANGED << cacheVars, chat, agent, launch, kget >>

\* Lines 272-275: io.Copy of the response body into the temporary file, one
\* chunk per step.
downloadToWriter_Copy ==
    /\ ml.pc = "Copy"
    /\ \/ /\ Len(ml.tmp.bytes) < Len(ResponseBody)
          /\ ml' = [ml EXCEPT !.tmp = File(Append(ml.tmp.bytes,
                                  ResponseBody[Len(ml.tmp.bytes) + 1]))]
       \/ /\ Len(ml.tmp.bytes) = Len(ResponseBody)
          /\ ml' = [ml EXCEPT !.pc = "Close"]
       \/ NoRetryFailed("copy")
    /\ UNCHANGED << cacheVars, chat, agent, launch, kget >>

\* Lines 217-220: tempFile.Close().
downloadToFileNoRetry_Close ==
    /\ ml.pc = "Close"
    /\ \/ ml' = [ml EXCEPT !.pc = "Rename"]
       \/ NoRetryFailed("close")
    /\ UNCHANGED << cacheVars, chat, agent, launch, kget >>

\* Lines 222-227: os.Rename of the temporary file onto destPath.
downloadToFileNoRetry_Rename ==
    /\ ml.pc = "Rename"
    /\ \/ ml' = [ml EXCEPT !.pc = "check", !.err = NoError, !.dest = ml.tmp,
                           !.tmp = NoFile, !.files = ml.files \ {ml.made},
                           !.oks = ml.oks + 1]
       \/ NoRetryFailed("rename")
    /\ UNCHANGED << cacheVars, chat, agent, launch, kget >>

\* downloadToFile comparing with > where line 177 has >=.
downloadToFile_CheckOffByOne ==
    /\ ml.pc = "check"
    /\ ml' = IF ml.err = NoError
             THEN [ml EXCEPT !.pc = "done", !.result = NoError]
             ELSE IF ml.attempt > ml.max
                  THEN [ml EXCEPT !.pc = "done", !.result = ml.err]
                  ELSE [ml EXCEPT !.pc = "loop"]
    /\ UNCHANGED << cacheVars, chat, agent, launch, kget >>

\* Lines 173-182: return nil on success, return the error when the attempts
\* are used up, else log, sleep and go round the loop.
downloadToFile_Check ==
    /\ ml.pc = "check"
    /\ ml' = IF ml.err = NoError
             THEN [ml EXCEPT !.pc = "done", !.result = NoError]
             ELSE IF ml.attempt >= ml.max
                  THEN [ml EXCEPT !.pc = "done", !.result = ml.err]
                  ELSE [ml EXCEPT !.pc = "loop"]
    /\ UNCHANGED << cacheVars, chat, agent, launch, kget >>

NextFetch ==
    \/ \E n \in AttemptBounds, d \in {NoFile, File(PreviousBody)} :
          downloadToFile(n, d)
    \/ downloadToFile_Attempt
    \/ downloadToFileNoRetry_CreateTemp
    \/ downloadToWriter_Do
    \/ downloadToWriter_Copy
    \/ downloadToFileNoRetry_Close
    \/ downloadToFileNoRetry_Rename
    \/ downloadToFile_Check

\* The launcher before its download: the blob cache's state plays no part.
InitFetch ==
    /\ CacheInit
    /\ durable = [h \in Hashes |-> NoFile]
    /\ ml = MlIdle
    /\ chat = ChatIdle
    /\ agent = AgentIdle
    /\ launch = LaunchIdle
    /\ kget = GetIdle

\* One download of the launcher; every file and network operation returns,
\* so a step that can be taken is taken.
SpecFetch == InitFetch /\ [][NextFetch]_vars /\ WF_vars(NextFetch)

\* ---------------------------------------------------------- httpServer
\* A request has a method and a path; a path is written as the sequence of
\* its "/" and the names between them.  http[t].status is the status code
\* written for t's request, 0 while none has been written, and http[t].body
\* the body: the message of http.Error, or "file" for what http.ServeFile
\* sends.

\* Line 447: http.ServeFile answering a plain GET for a file it can open.
StatusOK == 200
\* Line 427.
StatusNotFound == 404
\* Line 423.
StatusMethodNotAllowed == 405
\* Line 440.
StatusInternalServerError == 500

\* Number of requests served in one execution.
MaxRequests == 2

Methods == {"GET", "POST"}

Paths ==
    { << "/" >>, << "/", "h1" >>, << "/", "h2" >>, << "/", "h1", "/" >>,
      << "/", "h1", "/", "h2" >> }

\* strings.TrimPrefix(path, "/").
TrimPrefix(s) == IF Len(s) > 0 /\ s[1] = "/" THEN Tail(s) ELSE s

\* strings.Split(s, "/") from position i on: cur is the piece being read,
\* acc the pieces read.
RECURSIVE SplitFrom(_, _, _, _)
SplitFrom(s, i, cur, acc) ==
    IF i > Len(s)
    THEN Append(acc, cur)
    ELSE IF s[i] = "/"
         THEN SplitFrom(s, i + 1, << >>, Append(acc, cur))
         ELSE SplitFrom(s, i + 1, Append(cur, s[i]), acc)

\* strings.Split(s, "/"): one piece more than there are separators.
Split(s) == SplitFrom(s, 1, << >>, << >>)

\* The string of a piece of at most one name.
TokenString(tok) == IF tok = << >> THEN "" ELSE tok[1]

\* Goroutine t has no request in service.
Free(t) ==
    /\ pc[t] \in {"idle", "done"}
    /\ http[t].method = "" \/ http[t].status # 0

\* Lines 415-428 and 430-437: the path is split, a path of one piece is a
\* blob request, and a GET of one calls GetBlob with the piece.
ServeHTTP(t) ==
    /\ Free(t)
    /\ ncalls < MaxRequests
    /\ \E m \in Methods, p \in Paths :
          LET tokens == Split(TrimPrefix(p))
          IN  IF Len(tokens) = 1
              THEN IF m = "GET"
                   THEN /\ GetBlobCall(t, TokenString(tokens[1]))
                        /\ http' = [http EXCEPT ![t] =
                                      [method |-> m, path |-> p, status |-> 0,
                                       body |-> ""]]
                   ELSE /\ http' = [http EXCEPT ![t] =
                                      [method |-> m, path |-> p,
                                       status |-> StatusMethodNotAllowed,
                                       body |-> "method not allowed"]]
                        /\ ncalls' = ncalls + 1
                        /\ UNCHANGED << pc, hash, err, handle, mutex, jobs,
                                        local, durable, temp, src, via, log,
                                        fetched, cancelled, cut, ml, chat, agent, launch, kget >>
              ELSE /\ http' = [http EXCEPT ![t] =
                                 [method |-> m, path |-> p,
                                  status |-> StatusNotFound,
                                  body |-> "not found"]]
                   /\ ncalls' = ncalls + 1
                   /\ UNCHANGED << pc, hash, err, handle, mutex, jobs, local,
                                   durable, temp, src, via, log, fetched,
                                   cancelled, cut, ml, chat, agent, launch, kget >>

\* serveGETBlob answering 404 when GetBlob fails.
serveGETBlob_RespondNotFound(t) ==
    /\ pc[t] = "done"
    /\ http[t].method = "GET"
    /\ http[t].status = 0
    /\ http' = [http EXCEPT
                  ![t].status = IF err[t] # "nil" THEN StatusNotFound
                                ELSE StatusOK,
                  ![t].body = IF err[t] # "nil" THEN "not found" ELSE "file"]
    /\ UNCHANGED << pc, hash, err, handle, mutex, jobs, local, durable, temp,
                    src, via, log, fetched, ncalls, cancelled, cut, ml, chat, agent, launch, kget >>

\* Lines 438-447: GetBlob returned; an error is answered 500, a file is
\* served by http.ServeFile.
serveGETBlob_Respond(t) ==
    /\ pc[t] = "done"
    /\ http[t].method = "GET"
    /\ http[t].status = 0
    /\ http' = [http EXCEPT
                  ![t].status = IF err[t] # "nil" THEN StatusInternalServerError
                                ELSE StatusOK,
                  ![t].body = IF err[t] # "nil" THEN "internal server error"
                              ELSE "file"]
    /\ UNCHANGED << pc, hash, err, handle, mutex, jobs, local, durable, temp,
                    src, via, log, fetched, ncalls, cancelled, cut, ml, chat, agent, launch, kget >>

NextHTTP ==
    \E t \in Threads :
        \/ ServeHTTP(t)
        \/ serveGETBlob_Respond(t)
        \/ GetBlob_Reopen(t)
        \/ downloadBlob_Lock(t)
        \/ downloadBlob_Admit(t)
        \/ downloadBlob_Relock(t)
        \/ downloadBlob_Delete(t)
        \/ writeToFile_Create(t)
        \/ writeToFile_Copy(t)
        \/ writeToFile_Close(t)
        \/ writeToFile_Rename(t)
        \/ gcsStore_Download(t)
        \/ run_SourceForBlob(t)
        \/ downloadFromSource(t)
        \/ gcsStore_Upload(t)
        \/ gcsStore_UploadWrite(t)

\* The blob cache behind its HTTP server: every GetBlob call is a request's.
SpecHTTP == Init /\ [][NextHTTP]_vars

\* ------------------------------------------------- OpenAIChat.SendStreaming
\* chat is one OpenAIChat and the one SendStreaming call made on it:
\*   ret          what SendStreaming returned ("none" before the call)
\*   history      c.history, a sequence of [Role, Content]
\*   rpc, ipc     the lines the reader goroutine and the iterator stand at
\*   recvd        the chunks stream.Recv has returned, as they were on the wire
\*   nalloc       the ints the decoder has allocated for "index" fields
\*   fullContent, toolCalls   the reader's accumulators
\*   pending      the response the reader is sending on responses
\*   produced     the responses the reader has built, in order
\*   streamErr    the message of the error that ended the stream ("" so far)
\*   errs         the buffer of the errs channel (capacity 1)
\*   errsClosed, responsesClosed   the two channels' closed flags
\*   out          the (response, error) pairs yield was called with, in order
\*   ended        the case of the select the iterator returned from
\*   ctxDone      ctx.Done() is closed
\* A string is written as the sequence of its characters, so that += is \o.

\* Chunks one stream carries at most.
MaxChunks == 2

\* A tool call delta on the wire: its "index" (-1 when absent), the
\* function's name and a fragment of its arguments.
WireToolCall(index, name, arguments) ==
    [index |-> index, name |-> name, arguments |-> arguments]

\* A chunk on the wire: how many choices it has, and the delta of the first.
WireChunk(choices, content, tools) ==
    [choices |-> choices, content |-> content, tools |-> tools]

\* The chunks a stream is made of: text, a chunk without choices, the
\* opening and the continuation delta of the tool calls 0 and 1, and a
\* delta without index.
Chunks ==
    { WireChunk(1, << "a" >>, << >>),
      WireChunk(0, << >>, << >>),
      WireChunk(1, << >>, << WireToolCall(0, << "f" >>, << >>) >>),
      WireChunk(1, << >>, << WireToolCall(0, << >>, << "x" >>) >>),
      WireChunk(1, << >>, << WireToolCall(1, << "g" >>, << >>) >>),
      WireChunk(1, << >>, << WireToolCall(1, << >>, << "y" >>) >>),
      WireChunk(1, << >>, << WireToolCall(-1, << "h" >>, << "z" >>) >>) }

\* The errors stream.Recv returns: the end of the stream and a failure.
RecvErrors == { "EOF", "unexpected" }

\* The ways SendStreaming fails before it starts the reader.
SendFailures == { "parts", "schema", "create", "status code:" }

\* The user's message.
Prompt == << "q" >>

\* Decoding the k-th delta of a chunk: ToolCall.Index is a *int, and the
\* decoder allocates a new int for every "index" it reads; base is the
\* number of ints allocated before this chunk.
Decode(d, base, k) ==
    [Index |-> IF d.index < 0 THEN NilIndex
               ELSE [addr |-> base + k, val |-> d.index],
     Name |-> d.name, Arguments |-> d.arguments]

\* The decoded delta.ToolCalls of a chunk.
DecodeAll(tools, base) ==
    [k \in 1..Len(tools) |-> Decode(tools[k], base, k)]

\* Line 341: existingToolCall.Index == toolCall.Index compares two *int,
\* which are equal when both are nil or both point to the same int.
SameIndex(a, b) == a.addr = b.addr

\* Lines 339-356 for one delta: the first accumulated tool call with the
\* same Index is updated; a delta that found none is appended when its
\* Index is not nil and does not point to 0.
AccumulateToolCall(toolCalls, toolCall) ==
    LET found == { i \in 1..Len(toolCalls) :
                     SameIndex(toolCalls[i].Index, toolCall.Index) }
        i == CHOOSE j \in found : \A m \in found : j <= m
    IN  IF found # {}
        THEN [toolCalls EXCEPT
                ![i].Name = IF toolCall.Name # << >>
                            THEN toolCall.Name ELSE @,
                ![i].Arguments = @ \o toolCall.Arguments]
        ELSE IF toolCall.Index # NilIndex /\ toolCall.Index.val # 0
             THEN Append(toolCalls, toolCall)
             ELSE toolCalls

\* Lines 337-358: the loop over delta.ToolCalls, from the k-th delta on.
RECURSIVE AccumulateToolCalls(_, _, _)
AccumulateToolCalls(toolCalls, deltas, k) ==
    IF k > Len(deltas) THEN toolCalls
    ELSE AccumulateToolCalls(AccumulateToolCall(toolCalls, deltas[k]),
                             deltas, k + 1)

\* Lines 361-378: the response built for a chunk.
StreamResponse(fullContent, toolCalls) ==
    [Content |-> fullContent, ToolCalls |-> toolCalls, nil |-> FALSE]

\* Lines 245-300: SendStreaming up to the reader's start.  A failure of
\* partsToOpenAI returns before the history is touched; a failure of
\* ToRawSchema or of CreateChatCompletionStream returns after the user's
\* message was appended.  Otherwise the channels are made, the reader
\* goroutine starts and the consumer ranges over the returned iterator.
SendStreaming ==
    /\ chat.ret = "none"
    /\ \/ chat' = [chat EXCEPT !.ret = "parts"]
       \/ \E f \in SendFailures \ { "parts" } :
            chat' = [chat EXCEPT
                       !.ret = f,
                       !.history = Append(@, Message("user", Prompt, ""))]
       \/ chat' = [chat EXCEPT
                     !.ret = "iterator",
                     !.history = Append(@, Message("user", Prompt, "")),
                     !.rpc = "Recv", !.ipc = "select"]
    /\ UNCHANGED << cacheVars, ml, agent, launch, kget >>

\* Lines 314 and 328-380: stream.Recv returns a chunk.  The reader
\* accumulates the delta of the first choice and goes to send the response;
\* a chunk without choices sends nothing.
reader_RecvChunk ==
    /\ chat.rpc = "Recv"
    /\ Len(chat.recvd) < MaxChunks
    /\ \E c \in Chunks :
         LET deltas == DecodeAll(c.tools, chat.nalloc)
             content == chat.fullContent \o c.content
             calls == AccumulateToolCalls(chat.toolCalls, deltas, 1)
             resp == StreamResponse(content, calls)
         IN  IF c.choices > 0
             THEN chat' = [chat EXCEPT
                             !.recvd = Append(@, c),
                             !.nalloc = @ + Len(c.tools),
                             !.fullContent = content,
                             !.toolCalls = calls,
                             !.pending = resp,
                             !.produced = Append(@, resp),
                             !.rpc = "send"]
             ELSE chat' = [chat EXCEPT !.recvd = Append(@, c)]
    /\ UNCHANGED << cacheVars, ml, agent, launch, kget >>

\* Lines 314-326: stream.Recv returns an error.  At "EOF" the assistant's
\* message is appended to the history; any other error is sent on errs,
\* whose buffer is empty.  The reader returns, and stream.Close runs as the
\* first of its deferred calls.
reader_RecvError ==
    /\ chat.rpc = "Recv"
    /\ \E e \in RecvErrors :
         IF e = "EOF"
         THEN chat' = [chat EXCEPT
                         !.streamErr = e,
                         !.history = Append(@, Message("assistant",
                                                        chat.fullContent, "")),
                         !.rpc = "closeErrs"]
         ELSE chat' = [chat EXCEPT
                         !.streamErr = e,
                         !.errs = Append(@, e),
                         !.rpc = "closeErrs"]
    /\ UNCHANGED << cacheVars, ml, agent, launch, kget >>

\* Line 307: the deferred close(errs).
reader_CloseErrs ==
    /\ chat.rpc = "closeErrs"
    /\ chat' = [chat EXCEPT !.errsClosed = TRUE, !.rpc = "closeResponses"]
    /\ UNCHANGED << cacheVars, ml, agent, launch, kget >>

\* Line 306: the deferred close(responses); the goroutine ends.
reader_CloseResponses ==
    /\ chat.rpc = "closeResponses"
    /\ chat' = [chat EXCEPT !.responsesClosed = TRUE, !.rpc = "exit"]
    /\ UNCHANGED << cacheVars, ml, agent, launch, kget >>

\* What the iterator does after a yield that did not end it: the consumer
\* goes on (yield returned true) or breaks out of its loop (false).
AfterYield(c) ==
    \/ chat' = c
    \/ chat' = [c EXCEPT !.ipc = "done", !.ended = "stop"]

\* Lines 389-395: the select takes the case of errs.  A buffered error is
\* received, also from a closed channel, and yielded; a closed and empty
\* channel ends the iterator.
iterator_Errs ==
    /\ chat.ipc = "select"
    /\ \/ /\ chat.errs # << >>
          /\ AfterYield([chat EXCEPT
                           !.errs = Tail(@),
                           !.out = Append(@, [resp |-> NoResponse,
                                              err |-> Head(chat.errs)])])
       \/ /\ chat.errs = << >>
          /\ chat.errsClosed
          /\ chat' = [chat EXCEPT !.ipc = "done", !.ended = "errs"]
    /\ UNCHANGED << cacheVars, ml, agent, launch, kget >>

\* Lines 380 and 396-403: the select takes the case of responses.  The
\* channel has no buffer, so a response passes when the reader stands at
\* its send; a closed channel yields the end of the stream, (nil, nil), and
\* ends the iterator.
iterator_Responses ==
    /\ chat.ipc = "select"
    /\ \/ /\ chat.rpc = "send"
          /\ AfterYield([chat EXCEPT
                           !.rpc = "Recv",
                           !.pending = NoResponse,
                           !.out = Append(@, [resp |-> chat.pending,
                                              err |-> "nil"])])
       \/ /\ chat.responsesClosed
          /\ chat' = [chat EXCEPT
                        !.out = Append(@, [resp |-> NoResponse,
                                           err |-> "nil"]),
                        !.ipc = "done", !.ended = "responses"]
    /\ UNCHANGED << cacheVars, ml, agent, launch, kget >>

\* Lines 404-406: the select takes the case of ctx.Done().
iterator_CtxDone ==
    /\ chat.ipc = "select"
    /\ chat.ctxDone
    /\ chat' = [chat EXCEPT
                  !.out = Append(@, [resp |-> NoResponse,
                                     err |-> "context canceled"]),
                  !.ipc = "done", !.ended = "ctx"]
    /\ UNCHANGED << cacheVars, ml, agent, launch, kget >>

\* The caller cancels the context it passed to SendStreaming.
CtxCancel ==
    /\ chat.ret = "iterator"
    /\ ~chat.ctxDone
    /\ chat' = [chat EXCEPT !.ctxDone = TRUE]
    /\ UNCHANGED << cacheVars, ml, agent, launch, kget >>

NextStream ==
    \/ SendStreaming
    \/ reader_RecvChunk
    \/ reader_RecvError
    \/ reader_CloseErrs
    \/ reader_CloseResponses
    \/ iterator_Errs
    \/ iterator_Responses
    \/ iterator_CtxDone
    \/ CtxCancel

\* One SendStreaming call on a new chat, its reader and its consumer.
SpecStream == Init /\ [][NextStream]_vars

\* A step of the reader goroutine that waits for nobody: stream.Recv
\* returns, and the deferred closes run.
ReaderStep ==
    \/ reader_RecvChunk
    \/ reader_RecvError
    \/ reader_CloseErrs
    \/ reader_CloseResponses

\* A step of the iterator: the select takes a case that is ready.
IteratorStep ==
    \/ iterator_Errs
    \/ iterator_Responses
    \/ iterator_CtxDone

\* The same call under Go's scheduling: a goroutine that can run does run,
\* and a select with a ready case takes one.  The reader's send on responses
\* is part of the iterator's step, since it needs the iterator to receive.
SpecStreamFair ==
    /\ Init
    /\ [][NextStream]_vars
    /\ WF_vars(ReaderStep)
    /\ WF_vars(IteratorStep)

\* ------------------------------------------------------------ OpenAIChat.Send
\* chat.send is the Send call made on the chat:
\*   pc        "idle", "request" (CreateChatCompletion is out) or "done"
\*   n         Send calls started
\*   contents  the call's contents
\*   pre       c.history when the call started
\*   req       req.Messages of the call's request
\*   ret       what the call returned: "ok" or the failure
\* The chat has one caller: a call starts when no other call is running.

\* Send calls made on one chat at most.
MaxSends == 2

\* One element of contents: a string, a FunctionCallResult with the id of
\* its tool call, a value json.Marshal can encode, or one it cannot (a
\* channel, a function).
Part(kind, id, text) == [kind |-> kind, ID |-> id, text |-> text]

\* The contents Send is called with.
Contents ==
    { << >>,
      << Part("string", "", << "q" >>) >>,
      << Part("FunctionCallResult", "c1", << "r" >>) >>,
      << Part("FunctionCallResult", "c1", << "r" >>),
         Part("string", "", << "q" >>) >>,
      << Part("FunctionCallResult", "c1", << "r" >>),
         Part("unmarshalable", "", << >>) >>,
      << Part("unmarshalable", "", << >>) >>,
      << Part("string", "", << "q" >>), Part("value", "", << "v" >>) >> }

\* The message of the first choice of a response.
AssistantMessage == Message("assistant", << "a" >>, "")

\* Lines 413-444: partsToOpenAI from the k-th element on.  A string and an
\* encoded value are added to result; a FunctionCallResult is appended to
\* the history as a tool message and adds nothing; a value that cannot be
\* encoded ends the conversion with an error, the history keeping what was
\* appended before.
RECURSIVE partsToOpenAI(_, _, _, _)
partsToOpenAI(history, contents, k, result) ==
    IF k > Len(contents)
    THEN [result |-> result, err |-> "nil", history |-> history]
    ELSE LET v == contents[k]
         IN  CASE v.kind = "FunctionCallResult" ->
                    partsToOpenAI(Append(history,
                                         Message("tool", v.text, v.ID)),
                                  contents, k + 1, result)
               [] v.kind = "unmarshalable" ->
                    [result |-> << >>, err |-> "marshal", history |-> history]
               [] OTHER ->
                    partsToOpenAI(history, contents, k + 1, result \o v.text)

\* A failed Send that puts the history back to what it was before the call.
Send_ResponseRollsBack(failure) ==
    chat' = [chat EXCEPT !.history = chat.send.pre,
                         !.send.pc = "done", !.send.ret = failure]

\* Lines 222-232: CreateChatCompletion failed; Send returns the error.
Send_ResponseFailed(failure) ==
    chat' = [chat EXCEPT !.send.pc = "done", !.send.ret = failure]

\* Lines 180-221: Send up to its request.  A failure of partsToOpenAI
\* returns before the user's message is appended; otherwise the message is
\* appended, and a failure of ToRawSchema returns after that.  The request
\* carries the history as it then is.
Send ==
    /\ chat.ret = "none"
    /\ chat.send.pc \in { "idle", "done" }
    /\ chat.send.n < MaxSends
    /\ \E contents \in Contents :
         LET parts == partsToOpenAI(chat.history, contents, 1, << >>)
             history == Append(parts.history,
                               Message("user", parts.result, ""))
             call == [chat.send EXCEPT !.n = @ + 1, !.contents = contents,
                                       !.pre = chat.history, !.req = << >>]
         IN  IF parts.err # "nil"
             THEN chat' = [chat EXCEPT
                             !.history = parts.history,
                             !.send = [call EXCEPT !.pc = "done",
                                                   !.ret = "parts"]]
             ELSE \/ chat' = [chat EXCEPT
                                !.history = history,
                                !.send = [call EXCEPT !.pc = "done",
                                                      !.ret = "schema"]]
                  \/ chat' = [chat EXCEPT
                                !.history = history,
                                !.send = [call EXCEPT !.pc = "request",
                                                      !.req = history,
                                                      !.ret = "none"]]
    /\ UNCHANGED << cacheVars, ml, agent, launch, kget >>

\* Lines 221-241: CreateChatCompletion returns.  An error is returned as it
\* is or as an APIError; a response's first choice, when it has one, is
\* appended to the history, and Send returns the response.
Send_Response ==
    /\ chat.send.pc = "request"
    /\ \/ \E failure \in { "create", "status code:" } :
            Send_ResponseFailed(failure)
       \/ chat' = [chat EXCEPT !.send.pc = "done", !.send.ret = "ok"]
       \/ chat' = [chat EXCEPT !.history = Append(@, AssistantMessage),
                               !.send.pc = "done", !.send.ret = "ok"]
    /\ UNCHANGED << cacheVars, ml, agent, launch, kget >>

NextSend ==
    \/ Send
    \/ Send_Response

\* The Send calls of one caller on a new chat.
SpecSend == Init /\ [][NextSend]_vars

\* ------------------------------------------------------------ Strategy.RunOnce
\* agent is one Strategy and the RunOnce call made on it:
\*   pc        "idle", "loop" (a response is at hand), "calls" (its function
\*             calls are being executed) or "done"
\*   ret       what RunOnce returned: "nil" or the error
\*   rounds    responses that carried function calls so far
\*   response  the response at hand
\*   calls     the function calls of the first candidate, in the order the
\*             loops of lines 131-148 visit them, and k the next one
\*   functionCallResults   the results collected in this round
\*   round     the round's record: its response, the calls whose tool was
\*             executed, and the arguments of its SendFunctionResults calls

\* Rounds with function calls one RunOnce call goes through at most.
MaxRounds == 2

\* The names of the Tools map.
Tools == { "get" }

\* A gollm.FunctionCall.
FunctionCall(id, name) == [ID |-> id, Name |-> name]

\* A part of a candidate: AsText reports its text when it has one, and
\* AsFunctionCalls its function calls when it has some.
Part_(text, functionCalls) == [text |-> text, functionCalls |-> functionCalls]

\* The responses the LLM gives: no candidate; text only; a candidate
\* without parts; text and two calls; two calls in the other order; two
\* candidates with a call each; a call of a known and one of an unknown
\* function; two parts with a call each.
Responses ==
    { [candidates |-> << >>],
      [candidates |-> << << Part_("t", << >>) >> >>],
      [candidates |-> << << >> >>],
      [candidates |-> << << Part_("t", << >>),
                            Part_("", << FunctionCall("c1", "get"),
                                         FunctionCall("c2", "get") >>) >> >>],
      [candidates |-> << << Part_("", << FunctionCall("c2", "get"),
                                         FunctionCall("c1", "get") >>) >> >>],
      [candidates |-> << << Part_("", << FunctionCall("c1", "get") >>) >>,
                         << Part_("", << FunctionCall("c2", "get") >>) >> >>],
      [candidates |-> << << Part_("", << FunctionCall("c1", "get"),
                                         FunctionCall("c3", "nope") >>) >> >>],
      [candidates |-> << << Part_("", << FunctionCall("c1", "get") >>),
                            Part_("", << FunctionCall("c2", "get") >>) >> >>] }

\* Lines 131-138: the function calls the two loops visit, from the p-th
\* part on: the parts in order, and in each part that has calls, its calls
\* in order.
RECURSIVE CallsOfParts(_, _)
CallsOfParts(parts, p) ==
    IF p > Len(parts) THEN << >>
    ELSE parts[p].functionCalls \o CallsOfParts(parts, p + 1)

\* The function calls of a response's first candidate; none when there is
\* no candidate.
CallsOf(response) ==
    IF Len(response.candidates) = 0 THEN << >>
    ELSE CallsOfParts(response.candidates[1], 1)

\* Lines 177-208: the result doFunctionCall returns for a call whose tool
\* ran: the call's name and what the tool put out for that call.
FunctionCallResult(call) == [Name |-> call.Name, Result |-> << "out", call.ID >>]

\* The responses the LLM may give next: one with function calls only while
\* the bound on rounds allows another round.
NextResponses ==
    { r \in Responses : CallsOf(r) = << >> \/ agent.rounds < MaxRounds }

\* A result put in front of the results collected so far.
AppendResultInFront(functionCallResults, result) ==
    << result >> \o functionCallResults

\* Line 144: the result is appended to the results of the round.
AppendResult(functionCallResults, result) ==
    Append(functionCallResults, result)

\* RunOnce going on to the next call after a failed one.
doFunctionCall_FailedContinues(failure) ==
    agent' = [agent EXCEPT !.k = @ + 1]

\* Lines 141-143: doFunctionCall returned an error; RunOnce returns it.
doFunctionCall_Failed(failure) ==
    agent' = [agent EXCEPT !.pc = "done", !.ret = failure]

\* Lines 108-115: RunOnce sends the query.  An error of SendMessage ends
\* the call; otherwise the loop starts with the response.
RunOnce ==
    /\ agent.pc = "idle"
    /\ \/ agent' = [agent EXCEPT !.pc = "done", !.ret = "conversing with LLM"]
       \/ \E r \in NextResponses :
            agent' = [agent EXCEPT
                        !.pc = "loop", !.response = r,
                        !.rounds = @ + (IF CallsOf(r) = << >> THEN 0 ELSE 1)]
    /\ UNCHANGED << cacheVars, ml, chat, launch, kget >>

\* Lines 118-131: the top of the loop.  The response is recorded; a
\* response without candidates ends the call with an error; otherwise the
\* round starts with no results.
RunOnce_Candidates ==
    /\ agent.pc = "loop"
    /\ IF Len(agent.response.candidates) = 0
       THEN agent' = [agent EXCEPT
                        !.pc = "done", !.ret = "no candidates",
                        !.round = [response |-> agent.response,
                                   executed |-> << >>, sent |-> << >>]]
       ELSE agent' = [agent EXCEPT
                        !.pc = "calls",
                        !.calls = CallsOf(agent.response), !.k = 1,
                        !.functionCallResults = << >>,
                        !.round = [response |-> agent.response,
                                   executed |-> << >>, sent |-> << >>]]
    /\ UNCHANGED << cacheVars, ml, chat, launch, kget >>

\* Lines 138-146 and 174-208: the next function call.  A name that is not
\* in Tools and arguments that do not parse fail before the tool runs; the
\* tool's Execute may fail, and so may the conversion of its output;
\* otherwise the result is appended.
doFunctionCall ==
    /\ agent.pc = "calls"
    /\ agent.k <= Len(agent.calls)
    /\ LET call == agent.calls[agent.k]
       IN  IF call.Name \notin Tools
           THEN doFunctionCall_Failed("unknown function")
           ELSE \/ doFunctionCall_Failed("parsing tool arguments")
                \/ \E failure \in { "execute", "converting function results" } :
                     agent' = [agent EXCEPT
                                 !.pc = "done", !.ret = failure,
                                 !.round.executed = Append(@, call)]
                \/ agent' = [agent EXCEPT
                               !.k = @ + 1,
                               !.round.executed = Append(@, call),
                               !.functionCallResults =
                                   AppendResult(@, FunctionCallResult(call))]
    /\ UNCHANGED << cacheVars, ml, chat, launch, kget >>

\* Lines 150-162: after the last call.  Without results the loop ends and
\* RunOnce returns nil; otherwise the results are sent in one
\* SendFunctionResults call, whose error ends RunOnce and whose response
\* starts the next turn of the loop.
RunOnce_SendFunctionResults ==
    /\ agent.pc = "calls"
    /\ agent.k > Len(agent.calls)
    /\ IF Len(agent.functionCallResults) = 0
       THEN agent' = [agent EXCEPT !.pc = "done", !.ret = "nil"]
       ELSE LET sent == [agent EXCEPT
                           !.round.sent = Append(@, agent.functionCallResults)]
            IN  \/ agent' = [sent EXCEPT
                               !.pc = "done",
                               !.ret = "sending function call results"]
                \/ \E r \in NextResponses :
                     agent' = [sent EXCEPT
                                 !.pc = "loop", !.response = r,
                                 !.rounds = @ + (IF CallsOf(r) = << >>
                                                 THEN 0 ELSE 1)]
    /\ UNCHANGED << cacheVars, ml, chat, launch, kget >>

NextAgent ==
    \/ RunOnce
    \/ RunOnce_Candidates
    \/ doFunctionCall
    \/ RunOnce_SendFunctionResults

\* One RunOnce call on a Strategy.
SpecAgent == Init /\ [][NextAgent]_vars

\* ------------------------------------------------------------ launcher run
\* launch is the run of the model launcher's process:
\*   pc          "idle", "model", "chunks", "lookup", "start", "wait", "done"
\*   ret         what run returned: "nil" or the error
\*   modelURL    llmModel is a URL, to be downloaded
\*   chunks      the number of chunks llmChunks names
\*   c           chunks downloaded so far
\*   downloaded  the downloads that succeeded, in order
\*   i           the worker whose host is being looked up
\*   attempt     the lookups made for that host so far
\*   rpcHosts    the hosts resolved
\*   started     cmd.Start has started llama-server

\* Chunks a model is split in at most.
MaxLlmChunks == 2

\* Line 46.
workerCount == 4

\* Line 101.
maxAttempts == 100

\* A download made by run: the model, or the n-th chunk.
Download(kind, n) == [kind |-> kind, n |-> n]

\* The downloads the flags ask for, in the order run makes them.
Requested ==
    (IF launch.modelURL THEN << Download("model", 0) >> ELSE << >>)
        \o [n \in 1..launch.chunks |-> Download("chunk", n)]

\* A lookup that gives up one attempt later than the bound.
LookupGivesUpLate(attempt) == attempt > maxAttempts

\* Line 106: the failed lookup was the last one allowed.
LookupGivesUp(attempt) == attempt >= maxAttempts

\* run has returned the error e.
run_Return(e) == launch' = [launch EXCEPT !.pc = "done", !.ret = e]

\* Lines 42-74: the flags are read; the blobserver's URL may fail to parse.
run_Flags ==
    /\ launch.pc = "idle"
    /\ \/ run_Return("parsing blobserver url")
       \/ \E m \in BOOLEAN, n \in 0..MaxLlmChunks :
            launch' = [launch EXCEPT !.pc = "model", !.modelURL = m,
                                     !.chunks = n]
    /\ UNCHANGED << cacheVars, ml, chat, agent, kget >>

\* Lines 75-82: a model given as a URL is downloaded; a failed download
\* ends the run.
run_DownloadModel ==
    /\ launch.pc = "model"
    /\ IF launch.modelURL
       THEN \/ run_Return("downloading model")
            \/ launch' = [launch EXCEPT
                            !.pc = "chunks",
                            !.downloaded = Append(@, Download("model", 0))]
       ELSE launch' = [launch EXCEPT !.pc = "chunks"]
    /\ UNCHANGED << cacheVars, ml, chat, agent, kget >>

\* Lines 84-91 and 235-244: the next chunk is downloaded; a failed download
\* ends downloadSplitModel and the run.
run_DownloadChunk ==
    /\ launch.pc = "chunks"
    /\ launch.c < launch.chunks
    /\ \/ run_Return("downloading model chunks")
       \/ launch' = [launch EXCEPT
                       !.c = @ + 1,
                       !.downloaded = Append(@, Download("chunk", launch.c + 1))]
    /\ UNCHANGED << cacheVars, ml, chat, agent, kget >>

\* Lines 84, 92-100: no chunk is left to download; the lookups start with
\* the first worker.
run_ChunksDone ==
    /\ launch.pc = "chunks"
    /\ launch.c = launch.chunks
    /\ launch' = [launch EXCEPT !.pc = "lookup", !.i = 0, !.attempt = 0]
    /\ UNCHANGED << cacheVars, ml, chat, agent, kget >>

\* Lines 102-125: one lookup of the worker's host.  A failed lookup is
\* retried unless it was the last one allowed; a lookup without IPs ends the
\* run; a resolved host is appended, and the next worker follows, or the
\* start of llama-server after the last.
run_LookupIP ==
    /\ launch.pc = "lookup"
    /\ LET attempt == launch.attempt + 1
       IN  \/ IF LookupGivesUp(attempt)
              THEN launch' = [launch EXCEPT !.attempt = attempt,
                                            !.pc = "done",
                                            !.ret = "looking up host"]
              ELSE launch' = [launch EXCEPT !.attempt = attempt]
           \/ launch' = [launch EXCEPT !.attempt = attempt,
                                       !.pc = "done",
                                       !.ret = "did not return IPs"]
           \/ launch' = [launch EXCEPT
                           !.rpcHosts = Append(@, launch.i),
                           !.attempt = 0,
                           !.i = @ + 1,
                           !.pc = IF launch.i + 1 < workerCount
                                  THEN "lookup" ELSE "start"]
    /\ UNCHANGED << cacheVars, ml, chat, agent, kget >>

\* Lines 127-149: llama-server is started; cmd.Start may fail.
run_Start ==
    /\ launch.pc = "start"
    /\ \/ run_Return("starting llama-server")
       \/ launch' = [launch EXCEPT !.pc = "wait", !.started = TRUE]
    /\ UNCHANGED << cacheVars, ml, chat, agent, kget >>

\* Lines 151-154: llama-server exits, and run returns.
run_Wait ==
    /\ launch.pc = "wait"
    /\ \/ run_Return("llama-server exited with error")
       \/ run_Return("nil")
    /\ UNCHANGED << cacheVars, ml, chat, agent, kget >>

NextLaunch ==
    \/ run_Flags
    \/ run_DownloadModel
    \/ run_DownloadChunk
    \/ run_ChunksDone
    \/ run_LookupIP
    \/ run_Start
    \/ run_Wait

\* One run of the launcher.
SpecLaunch == Init /\ [][NextLaunch]_vars

\* ------------------------------------------------------------ KubectlGet
\* kget is one KubectlGet invocation: its parameters x, as parsed from the
\* LLM's arguments, and the command Execute built from them.  An argument
\* of the command is written as the sequence of the strings it is joined
\* from.

\* The values the LLM passes for the parameters.
Kinds == { "pods", "nodes" }
Names == { "", "n1" }
Namespaces == { "", "ns1", "ns2" }
Outputs == { "", "yaml", "json", "name" }

\* The KubectlGet values Execute is called on.
Invocations ==
    [Kind : Kinds, Name : Names, Namespace : Namespaces,
     AllNamespaces : BOOLEAN, Output : Outputs]

\* Lines 30-46: the command line for the parameters x.
buildCommand(x) ==
    LET command0 == << << "kubectl" >>, << "get" >> >>
        command1 == IF x.Namespace # ""
                    THEN command0 \o << << "--namespace" >>, << x.Namespace >> >>
                    ELSE Append(command0, << "--all-namespaces" >>)
        command2 == Append(command1, << x.Kind >>)
        command3 == IF x.Name # "" THEN Append(command2, << x.Name >>)
                    ELSE command2
    IN  IF x.Output # "" THEN Append(command3, << "-o", x.Output >>)
        ELSE command3

\* Lines 24-28: Execute builds the command and runs it.
Execute ==
    /\ kget.pc = "idle"
    /\ kget' = [kget EXCEPT !.pc = "done", !.command = buildCommand(kget.x)]
    /\ UNCHANGED << cacheVars, ml, chat, agent, launch >>

NextGet == Execute

\* The tool as the LLM calls it: with any parameters.
InitGet ==
    /\ CacheInit
    /\ durable = [h \in Hashes |-> NoFile]
    /\ ml = MlIdle
    /\ chat = ChatIdle
    /\ agent = AgentIdle
    /\ launch = LaunchIdle
    /\ \E x \in Invocations : kget = [GetIdle EXCEPT !.x = x]

\* One call of the tool.
SpecGet == InitGet /\ [][NextGet]_vars

\* ------------------------------------------------------- positions and history
\* t registered a job (line 513) and has not deleted it yet (line 520).
HasJob(t) == pc[t] \in RunPcs \cup {"relock", "delete"}

\* The registry has an entry whose identifier is exactly h.
InRegistry(h) == \E i \in DOMAIN knownBlobs : knownBlobs[i].Hash = h

\* The pipeline of t's current call did e; how many times it did.
Did(t, e) == \E i \in DOMAIN log[t] : log[t][i] = e
Count(t, e) == Cardinality({i \in DOMAIN log[t] : log[t][i] = e})

\* ---------------------------------------------------------------- claims

\* C1: for each identifier at most one goroutine holds a registered job and
\* at most one executes downloadJob.run, and a goroutine executing run for h
\* is the one whose job the jobs map holds under h.
C1_SingleFlight ==
    \A h \in Hashes :
        /\ Cardinality({t \in Threads : HasJob(t) /\ hash[t] = h}) <= 1
        /\ Cardinality({t \in Threads : InRun(t) /\ hash[t] = h}) <= 1
        /\ \A t \in Threads : InRun(t) /\ hash[t] = h => jobs[h] = t

\* A second caller for the same identifier stands at the check of line 503
\* while the first executes run.
C1_Witness ==
    \E t, u \in Threads :
        /\ t # u
        /\ hash[t] = hash[u]
        /\ InRun(t)
        /\ pc[u] = "admit"

\* C2: concurrent GetBlob calls for an identifier with no local file complete
\* at most one origin fetch of it.  (fetched counts only the fetches that
\* were served and published; two of them for one identifier belong to two
\* calls that both found no local file and overlap at the first publish.)
C2_AtMostOneOriginFetch == \A h \in Hashes : fetched[h] <= 1

\* C3: a file at a local cache path, and every file a reader opened there,
\* holds a complete body of the blob, never a prefix of one.
C3_LocalFileComplete ==
    /\ \A h \in Hashes : local[h].exists => local[h].bytes \in CompleteBodies(h)
    /\ \A t \in Threads :
          handle[t].exists => handle[t].bytes \in CompleteBodies(hash[t])

\* A writer is in the middle of its copy for an identifier whose local file
\* a reader holds open.
C3_Witness ==
    \E t, u \in Threads :
        /\ t # u
        /\ hash[t] = hash[u]
        /\ pc[t] = "Copy"
        /\ Len(temp[t].bytes) > 0
        /\ Len(temp[t].bytes) < BlobLen
        /\ pc[u] = "done"
        /\ handle[u].exists

\* C4: the step of downloadBlob that finds a job registered for its
\* identifier returns "already in progress" at once: the caller has run no
\* pipeline step, and the jobs map, the files, the bucket and every other
\* goroutine are left as they were.
C4_RejectFailsFast ==
    [][\A t \in Threads :
          (pc[t] = "admit" /\ jobs[hash[t]] # Nil /\ pc'[t] # pc[t]) =>
              /\ pc'[t] = "done"
              /\ err'[t] = "inprogress"
              /\ handle'[t] = NoFile
              /\ log'[t] = << >>
              /\ mutex' = Nil
              /\ UNCHANGED << jobs, local, durable, temp, src, via, fetched >>
              /\ \A u \in Threads \ {t} : pc'[u] = pc[u] /\ log'[u] = log[u]]_vars

\* A call was rejected and the job that was running is still running.
C4_Witness ==
    \E t \in Threads :
        /\ pc[t] = "done"
        /\ err[t] = "inprogress"
        /\ jobs[hash[t]] # Nil
        /\ jobs[hash[t]] # t
        /\ InRun(jobs[hash[t]])

\* C5: the step by which an admitted downloadBlob returns leaves no job
\* under its identifier, whatever run returned; and a downloadBlob that
\* reaches the check of line 503 while no other call holds a job for its
\* identifier is admitted.
C5_JobRemovedOnReturn ==
    [][\A t \in Threads :
          /\ (pc[t] = "delete" /\ pc'[t] # pc[t]) =>
                /\ jobs'[hash[t]] = Nil
                /\ pc'[t] = IF err[t] = "nil" THEN "reopen" ELSE "done"
                /\ err'[t] = err[t]
          /\ (/\ pc[t] = "admit"
              /\ pc'[t] # pc[t]
              /\ \A u \in Threads \ {t} : ~(HasJob(u) /\ hash[u] = hash[t])) =>
                pc'[t] = "Download"]_vars

\* A call is admitted for an identifier after an earlier pipeline for it
\* returned an error.
C5_Witness ==
    \E t, u \in Threads :
        /\ t # u
        /\ hash[t] = hash[u]
        /\ pc[u] = "done"
        /\ err[u] \in {"gcs", "unknown", "origin", "upload"}
        /\ pc[t] = "Download"
        /\ jobs[hash[t]] = t

\* C6: a GetBlob that succeeds for an identifier of the registry after its
\* local open and its durable download both reported "does not exist" has
\* made exactly one origin GET, and the local file, the bucket object and
\* the file it returns all hold the origin's bytes.
C6_TieredFallback ==
    \A t \in Threads :
        (/\ pc[t] = "done"
         /\ err[t] = "nil"
         /\ InRegistry(hash[t])
         /\ Did(t, "download.notexist")) =>
            LET body == OriginBody(SourceForBlob(hash[t]).url)
            IN  /\ Count(t, "get") = 1
                /\ Count(t, "fetch.ok") = 1
                /\ local[hash[t]] = File(body)
                /\ durable[hash[t]] = File(body)
                /\ handle[t] = File(body)

\* A call went through the durable miss, the origin fetch and the upload,
\* and returned the file.
C6_Witness ==
    \E t \in Threads :
        /\ pc[t] = "done"
        /\ err[t] = "nil"
        /\ log[t] = << "download.notexist", "lookup.ok", "get", "fetch.ok",
                       "upload.ok" >>
        /\ handle[t].exists

\* C7: once the durable download of a call has succeeded, run has returned
\* success having done nothing else (no registry lookup, no GET, no
\* upload), and the local file holds the bytes of the bucket object.
C7_DurableShortCircuit ==
    \A t \in Threads :
        Did(t, "download.ok") =>
            /\ pc[t] \in {"relock", "delete", "reopen", "done"}
            /\ err[t] = "nil"
            /\ log[t] = << "download.ok" >>
            /\ local[hash[t]].exists
            /\ durable[hash[t]].exists
            /\ local[hash[t]].bytes = durable[hash[t]].bytes
            /\ (pc[t] = "done" => handle[t] = durable[hash[t]])

\* A call for an identifier of the registry was served from the bucket,
\* whose bytes differ from the origin's.
C7_Witness ==
    \E t \in Threads :
        /\ pc[t] = "done"
        /\ InRegistry(hash[t])
        /\ log[t] = << "download.ok" >>
        /\ handle[t].exists
        /\ handle[t].bytes # OriginBody(SourceForBlob(hash[t]).url)

\* C8: a durable download that fails with anything but "object does not
\* exist" ends the pipeline there with that failure: nothing follows it in
\* the call, and the origin tier is entered only after "does not exist".
C8_DurableErrorIsFatal ==
    \A t \in Threads :
        /\ Did(t, "download.err") =>
              /\ log[t] = << "download.err" >>
              /\ pc[t] \in {"relock", "delete", "done"}
              /\ err[t] = "gcs"
              /\ handle[t] = NoFile
        /\ (pc[t] \in {"SourceForBlob", "downloadFromSource", "Upload",
                       "UploadWrite"} \/ Len(log[t]) > 1) =>
              log[t][1] = "download.notexist"

\* A call failed at the durable tier although the origin could have served
\* the identifier.
C8_Witness ==
    \E t \in Threads :
        /\ pc[t] = "done"
        /\ err[t] = "gcs"
        /\ InRegistry(hash[t])
        /\ ~durable[hash[t]].exists
        /\ ~local[hash[t]].exists

\* C9 as stated: for an identifier with no local file, no bucket object and
\* no registry entry, GetBlob returns "unknown blob" and creates nothing.
C9_UnknownReturnsUnknown ==
    \A t \in Threads :
        (/\ pc[t] = "done"
         /\ ~InRegistry(hash[t])
         /\ ~local[hash[t]].exists
         /\ ~durable[hash[t]].exists) =>
            /\ err[t] = "unknown"
            /\ ~temp[t].exists
            /\ fetched[hash[t]] = 0
            /\ Count(t, "get") = 0

\* C9 amended: for such an identifier GetBlob never succeeds and the
\* execution creates no local file, no temporary file and no bucket object
\* and makes no origin GET; the error is "unknown blob" exactly when the
\* call was admitted and its durable download reported "does not exist",
\* "already in progress" when it was rejected, and the durable-store
\* failure when the download failed otherwise.
C9_UnknownBlobFails ==
    \A t \in Threads :
        (/\ pc[t] # "idle"
         /\ ~InRegistry(hash[t])
         /\ ~durable[hash[t]].exists) =>
            /\ ~local[hash[t]].exists
            /\ ~temp[t].exists
            /\ ~handle[t].exists
            /\ fetched[hash[t]] = 0
            /\ Count(t, "get") = 0
            /\ pc[t] \notin {"writeToFile", "Copy", "Close", "Rename",
                             "downloadFromSource", "Upload", "UploadWrite",
                             "reopen"}
            /\ pc[t] = "done" =>
                  /\ err[t] \in {"unknown", "inprogress", "gcs"}
                  /\ err[t] = "unknown" <=>
                        log[t] = << "download.notexist", "lookup.unknown" >>
                  /\ err[t] = "inprogress" <=> log[t] = << >>
                  /\ err[t] = "gcs" <=> log[t] = << "download.err" >>

\* A call for such an identifier returned "unknown blob".
C9_Witness ==
    \E t \in Threads :
        /\ pc[t] = "done"
        /\ ~InRegistry(hash[t])
        /\ ~durable[hash[t]].exists
        /\ err[t] = "unknown"
        /\ log[t] = << "download.notexist", "lookup.unknown" >>

\* C10: when the upload that follows a successful origin fetch fails, run
\* and GetBlob return the upload's error and no file, although the local
\* path holds the complete origin bytes.
C10_UploadFailureFailsCall ==
    \A t \in Threads :
        Did(t, "upload.err") =>
            /\ log[t] = << "download.notexist", "lookup.ok", "get", "fetch.ok",
                           "upload.err" >>
            /\ pc[t] \in {"relock", "delete", "done"}
            /\ err[t] = "upload"
            /\ handle[t] = NoFile
            /\ local[hash[t]] = File(OriginBody(SourceForBlob(hash[t]).url))

\* A call returned the upload's error and the local file is there.
C10_Witness ==
    \E t \in Threads :
        /\ pc[t] = "done"
        /\ err[t] = "upload"
        /\ handle[t] = NoFile
        /\ local[hash[t]].exists
        /\ ~durable[hash[t]].exists

\* t's call found the local file at line 484 and returned its handle.
LocalHit(t) ==
    /\ pc[t] = "done"
    /\ err[t] = "nil"
    /\ log[t] = << >>
    /\ handle[t].exists

\* C11: a GetBlob call for an identifier whose local file exists returns a
\* handle to that file in the same step, with no error and nothing done by
\* the pipeline; the step leaves the mutex, the jobs map, the local files,
\* the bucket, the temporary files and the origin fetch counts unchanged, and
\* changes nothing of any other goroutine; and the handles that such calls
\* returned for one identifier hold the same bytes.
C11_LocalHitIsPure ==
    /\ [][\A t \in Threads :
            (GetBlob(t) /\ local[hash'[t]].exists) =>
                /\ pc'[t] = "done"
                /\ handle'[t] = local[hash'[t]]
                /\ err'[t] = "nil"
                /\ log'[t] = << >>
                /\ UNCHANGED << mutex, jobs, local, durable, temp, src, via,
                                fetched >>
                /\ \A u \in Threads \ {t} :
                      /\ pc'[u] = pc[u]
                      /\ hash'[u] = hash[u]
                      /\ handle'[u] = handle[u]
                      /\ err'[u] = err[u]
                      /\ log'[u] = log[u]]_vars
    /\ [](\A t, u \in Threads :
            (LocalHit(t) /\ LocalHit(u) /\ hash[t] = hash[u]) =>
                handle[t].bytes = handle[u].bytes)

\* Two calls for one identifier both returned the local file while the
\* mutex was held by nobody and no job was registered.
C11_Witness ==
    \E t, u \in Threads :
        /\ t # u
        /\ LocalHit(t)
        /\ LocalHit(u)
        /\ hash[t] = hash[u]
        /\ handle[t] = local[hash[t]]

\* t's downloadBlob returned nil: run returned nil, or the call went on from
\* there.
PopulateSucceeded(t) ==
    \/ pc[t] \in {"relock", "delete", "reopen"} /\ err[t] = "nil"
    \/ pc[t] = "done" /\ err[t] = "nil" /\ log[t] # << >>

\* C12: from the moment run returns nil for an identifier its local file
\* exists with a complete body; a local file that exists is never removed
\* or replaced by anything but a complete body; so the open of line 495
\* never fails, and a call that populated the file returns a handle to it.
C12_SuccessMeansFileExists ==
    /\ [](\A t \in Threads :
            /\ PopulateSucceeded(t) =>
                  /\ local[hash[t]].exists
                  /\ local[hash[t]].bytes \in CompleteBodies(hash[t])
            /\ err[t] # "open"
            /\ (PopulateSucceeded(t) /\ pc[t] = "done") =>
                  /\ handle[t].exists
                  /\ handle[t] = local[hash[t]])
    /\ [][\A h \in Hashes :
            local[h].exists =>
                /\ local'[h].exists
                /\ local'[h].bytes \in CompleteBodies(h)]_vars

\* A call that populated the local file from the origin reopened it and
\* returned the complete body.
C12_Witness ==
    \E t \in Threads :
        /\ PopulateSucceeded(t)
        /\ pc[t] = "done"
        /\ Did(t, "fetch.ok")
        /\ handle[t].bytes \in CompleteBodies(hash[t])

\* The step by which t's pipeline goes on from where it is when its I/O
\* does not fail.
Proceeds(t) ==
    \/ /\ pc[t] = "Download"
       /\ gcsStore_Download(t)
       /\ pc'[t] \in {"writeToFile", "SourceForBlob"}
    \/ /\ pc[t] = "downloadFromSource"
       /\ downloadFromSource(t)
       /\ pc'[t] = "writeToFile"
    \/ /\ pc[t] = "Copy"
       /\ writeToFile_Copy(t)
       /\ \/ Len(temp'[t].bytes) = Len(temp[t].bytes) + 1
          \/ pc'[t] = "Close"
    \/ /\ pc[t] = "Upload"
       /\ gcsStore_Upload(t)
       /\ err'[t] = "nil"
       /\ pc'[t] \in {"UploadWrite", "relock"}
    \/ /\ pc[t] = "UploadWrite"
       /\ gcsStore_UploadWrite(t)
       /\ err'[t] = "nil"
       /\ durable'[hash[t]] = File(src[t])

\* C13: the context that job.run and its I/O run under is never done, and a
\* pipeline whose request was cancelled can, at each of its I/O steps, take
\* the step it takes when the I/O succeeds: the cancellation removes no
\* continuation, up to the successful return of run.
C13_CancelDoesNotAbort ==
    \A t \in Threads :
        /\ ~JobCtxDone(t)
        /\ (/\ cancelled[t]
            /\ pc[t] \in {"Download", "downloadFromSource", "Copy", "Upload",
                          "UploadWrite"}) => ENABLED Proceeds(t)

\* A run whose request had been cancelled fetched the blob from the origin,
\* uploaded it and returned nil.
C13_Witness ==
    \E t \in Threads :
        /\ cancelled[t]
        /\ pc[t] = "relock"
        /\ err[t] = "nil"
        /\ Did(t, "fetch.ok")
        /\ Did(t, "upload.ok")
        /\ local[hash[t]].exists

\* C14: the mutex is held only between line 501 and lines 505/515 and
\* between lines 519 and 521, never by a goroutine that is opening a file
\* or is inside job.run; its holder's next step is always enabled, so it is
\* released without waiting for any I/O; a goroutine waiting at line 501
\* gets the mutex whenever it is free; and the holder at line 502 is
\* admitted when its identifier has no job and rejected when it has one,
\* whatever the other goroutines' pipelines are doing.
C14_NoLockDuringIO ==
    \A t \in Threads :
        /\ mutex = t => pc[t] \in {"admit", "delete"}
        /\ (InRun(t) \/ pc[t] \in {"idle", "done", "reopen", "lock", "relock"})
              => mutex # t
        /\ mutex = t => ENABLED (downloadBlob_Admit(t) \/ downloadBlob_Delete(t))
        /\ (pc[t] = "lock" /\ mutex = Nil) => ENABLED downloadBlob_Lock(t)
        /\ (pc[t] = "admit" /\ jobs[hash[t]] = Nil) =>
              ENABLED (downloadBlob_Admit(t) /\ pc'[t] = "Download"
                       /\ jobs'[hash[t]] = t /\ mutex' = Nil)
        /\ (pc[t] = "admit" /\ jobs[hash[t]] # Nil) =>
              ENABLED (downloadBlob_Admit(t) /\ pc'[t] = "done"
                       /\ err'[t] = "inprogress" /\ mutex' = Nil)

\* While one goroutine copies the body of an identifier, another holds the
\* mutex and is about to be admitted for a different identifier.
C14_Witness ==
    \E t, u \in Threads :
        /\ pc[t] = "Copy"
        /\ Len(temp[t].bytes) > 0
        /\ pc[u] = "admit"
        /\ mutex = u
        /\ hash[u] # hash[t]
        /\ jobs[hash[u]] = Nil

\* C15: a run reports the failure of its origin fetch only after it made as
\* many GET attempts as the attempt bound allows.
C15_OriginFetchRetried ==
    \A t \in Threads :
        err[t] = "origin" => Count(t, "get") >= maxDownloadAttempts

\* The larger of 1 and n.
AtLeastOne(n) == IF n > 1 THEN n ELSE 1

\* C16: for every attempt bound n, downloadToFile returns; it makes at
\* least one and at most max(1, n) attempts, each sending at most one
\* request; at most one attempt succeeds, and after it the call returns nil
\* with no further attempt; a call that returns an error made max(1, n)
\* attempts, none successful, and returns the error of the last one; a
\* status other than 200 is such an error.
C16_FetchTerminates ==
    /\ [](ml.pc # "idle" =>
            /\ ml.attempt <= AtLeastOne(ml.max)
            /\ ml.gets <= ml.attempt
            /\ ml.oks <= 1
            /\ ml.oks = 1 => (ml.pc \in {"check", "done"} /\ ml.err = NoError)
            /\ ml.err = NoError => ml.oks = 1
            /\ ml.pc = "done" =>
                  /\ ml.attempt >= 1
                  /\ ml.result = ml.err
                  /\ ml.oks = 0 =>
                        /\ ml.attempt = AtLeastOne(ml.max)
                        /\ ml.result[1] \in {"createtemp", "request", "do",
                                             "status", "copy", "close",
                                             "rename"}
                        /\ ml.result[2] = ml.attempt)
    /\ <>(ml.pc = "done")

\* With a bound of at least two, every attempt got a status other than 200
\* and the call returned the error of the last one.
C16_Witness ==
    /\ ml.pc = "done"
    /\ ml.max >= 2
    /\ ml.attempt = ml.max
    /\ ml.gets = ml.max
    /\ ml.result = Error("status", ml.max)

\* p is the beginning of b.
IsPrefix(p, b) ==
    /\ Len(p) <= Len(b)
    /\ \A i \in 1 .. Len(p) : p[i] = b[i]

WritePcs == {"writeToFile", "Copy", "Close", "Rename"}

C20_UploadChecksExistence ==
    [][\A t \in Threads :
         /\ gcsStore_Upload(t) =>
               /\ durable' = durable
               /\ durable[hash[t]].exists =>
                     /\ pc'[t] = "relock"
                     /\ err'[t] \in {"nil", "upload"}
                     /\ err'[t] = "nil" =>
                           log'[t] = Append(log[t], "upload.skip")
               /\ pc'[t] = "UploadWrite" =>
                     /\ ~durable[hash[t]].exists
                     /\ src'[t] = local[hash[t]].bytes
               /\ ~durable[hash[t]].exists => err'[t] # "nil" \/ pc'[t] = "UploadWrite"
         /\ gcsStore_UploadWrite(t) =>
               /\ \A h \in Hashes \ {hash[t]} : durable'[h] = durable[h]
               /\ durable'[hash[t]] \in {durable[hash[t]], File(src[t])}
               /\ err'[t] = "nil" => durable'[hash[t]] = File(src[t])
               /\ durable[hash[t]] = File(src[t]) => durable' = durable]_vars

\* A run fetched the blob from the origin, found at the check that the
\* object had been uploaded in the meantime, skipped the write and
\* returned nil.
C20_Witness ==
    \E t \in Threads :
        /\ pc[t] = "relock"
        /\ err[t] = "nil"
        /\ Did(t, "download.notexist")
        /\ Did(t, "upload.skip")
        /\ durable[hash[t]].exists

\* The number of segments of a path: none for the root path, else the
\* number of pieces between its separators.
Segments(p) == IF p = << "/" >> THEN 0 ELSE Len(Split(TrimPrefix(p)))

\* The cache's own state: everything but the requests.
blobState ==
    << pc, hash, err, handle, mutex, jobs, local, durable, temp, src, via, log,
       fetched, cancelled, cut >>

C22_OtherPathsNotFound ==
    \A t \in Threads :
        /\ (http[t].method # "" /\ Segments(http[t].path) # 1) =>
              http[t].status = StatusNotFound
        /\ hash[t] # ""

\* The errors job.run returns.
RunErrors == {"gcs", "unknown", "origin", "upload"}

\* C23: a goroutine enters downloadBlob only in the step that starts a
\* GetBlob call, and job.run only from the admission of that entry, with
\* nothing of the pipeline done in the call before; so a call's history has
\* at most one outcome of the durable download.  A call returns an error only
\* from the rejection, as "already in progress", or from the delete after
\* run returned an error, as that error; it returns no file with it, and a
\* failed downloadBlob is followed by the return, never by another try.
C23_NoRetryInGetBlob ==
    /\ [][\A t \in Threads :
            /\ (pc'[t] = "lock" /\ pc[t] # "lock") =>
                  (pc[t] \in {"idle", "done"} /\ ncalls' = ncalls + 1)
            /\ (pc'[t] = "Download" /\ pc[t] # "Download") =>
                  (pc[t] = "admit" /\ log[t] = << >>)
            /\ (pc'[t] = "done" /\ pc[t] \notin {"idle", "done"}
                /\ err'[t] # "nil") =>
                  \/ pc[t] = "admit" /\ err'[t] = "inprogress"
                  \/ pc[t] = "delete" /\ err'[t] = err[t] /\ err[t] \in RunErrors
            /\ (pc[t] = "delete" /\ pc'[t] # "delete" /\ err[t] # "nil") =>
                  (pc'[t] = "done" /\ err'[t] = err[t])]_vars
    /\ [](\A t \in Threads :
            /\ Count(t, "download.ok") + Count(t, "download.notexist")
                 + Count(t, "download.err") <= 1
            /\ (pc[t] = "done" /\ err[t] # "nil") =>
                  (~handle[t].exists /\ err[t] \in RunErrors \cup {"inprogress"}))

\* A call whose run failed at the upload has returned that error after one
\* pass through the pipeline.
C23_Witness ==
    \E t \in Threads :
        /\ pc[t] = "done"
        /\ err[t] = "upload"
        /\ log[t] = << "download.notexist", "lookup.ok", "get", "fetch.ok",
                       "upload.err" >>
        /\ jobs[hash[t]] = Nil

\* C24: no step removes a local file; a step that changes the local file
\* of an identifier is the successful rename of a writeToFile call for that
\* identifier, it puts the call's closed temporary file, a complete body, in
\* the place of whatever was there, and it changes no other local file.
C24_LocalFilesNeverDeleted ==
    [][\A h \in Hashes :
         /\ local[h].exists => local'[h].exists
         /\ local'[h] # local[h] =>
               \E t \in Threads :
                   /\ pc[t] = "Rename"
                   /\ hash[t] = h
                   /\ pc'[t] \in {"Upload", "relock"}
                   /\ local'[h] = temp[t]
                   /\ temp[t].bytes = src[t]
                   /\ temp[t].bytes \in CompleteBodies(h)]_vars

\* A call is about to rename its complete temporary file over the file
\* that an earlier call published for the same identifier.
C24_Witness ==
    \E t \in Threads :
        /\ pc[t] = "Rename"
        /\ local[hash[t]].exists
        /\ temp[t].bytes \in CompleteBodies(hash[t])
        /\ fetched[hash[t]] > 0

\* The identifiers a lookup is asked for: those of requests, those of the
\* table, and the empty one.
QueryHashes ==
    Hashes \cup {knownBlobs[i].Hash : i \in DOMAIN knownBlobs} \cup {""}

\* C25: for every identifier, SourceForBlob fails exactly when no entry of
\* the table has that identifier, and then with the "not known" error and
\* no URL; otherwise it returns the URL of an entry whose identifier is the
\* one asked for.  A run that got past the lookup asked for an identifier of
\* the table, and a run that the lookup failed returns "unknown".
C25_ExactMatchLookup ==
    /\ \A h \in QueryHashes :
          LET r == SourceForBlob(h)
          IN  /\ r.err \in {"nil", "unknown"}
              /\ r.err = "unknown" <=> ~InRegistry(h)
              /\ r.err = "unknown" => r.url = ""
              /\ r.err = "nil" =>
                    \E i \in DOMAIN knownBlobs :
                        knownBlobs[i].Hash = h /\ knownBlobs[i].URL = r.url
    /\ \A t \in Threads :
          /\ pc[t] = "downloadFromSource" =>
                (InRegistry(hash[t]) /\ Did(t, "lookup.ok"))
          /\ Did(t, "lookup.ok") => InRegistry(hash[t])
          /\ Did(t, "lookup.unknown") =>
                (~InRegistry(hash[t]) /\ err[t] = "unknown")

\* One run's lookup found the URL of its identifier while another's, for an
\* identifier that is not in the table, failed.
C25_Witness ==
    \E t, u \in Threads :
        /\ pc[t] = "downloadFromSource"
        /\ InRegistry(hash[t])
        /\ Did(u, "lookup.unknown")
        /\ ~InRegistry(hash[u])
        /\ err[u] = "unknown"

\* C26: a job is taken out of the map only by the goroutine that put it
\* there, in its step at line 520 under the mutex; and when every operation
\* of the pipeline returns, each goroutine that registered a job gets to
\* that step, so every identifier is again and again without a job.
C26_JobEventuallyRemoved ==
    /\ [][\A h \in Hashes :
            (jobs[h] # Nil /\ jobs'[h] # jobs[h]) =>
                /\ jobs'[h] = Nil
                /\ pc[jobs[h]] = "delete"
                /\ hash[jobs[h]] = h
                /\ mutex = jobs[h]
                /\ pc'[jobs[h]] \in {"reopen", "done"}]_vars
    /\ \A t \in Threads : HasJob(t) ~> ~HasJob(t)
    /\ \A h \in Hashes : []<>(jobs[h] = Nil)

\* A job whose run has failed is registered while another call for the
\* identifier has just been rejected: the registering goroutine is yet to
\* take the mutex and remove it.
C26_Witness ==
    \E t, u \in Threads :
        /\ pc[t] = "relock"
        /\ err[t] # "nil"
        /\ jobs[hash[t]] = t
        /\ pc[u] = "done"
        /\ hash[u] = hash[t]
        /\ err[u] = "inprogress"

\* C27: whenever no job is running for an identifier whose local file an
\* origin fetch of this process produced, the bucket holds an object for
\* the identifier.
C27_OriginFileImpliesDurable ==
    \A h \in Hashes :
        (jobs[h] = Nil /\ local[h].exists /\ fetched[h] > 0) =>
            durable[h].exists

\* ------------------------------------------------------------ streaming
\* The "index" values of the tool call deltas the reader has received in
\* chunks that have a choice.
WireIndexes ==
    UNION { { chat.recvd[n].tools[k].index :
                k \in 1..Len(chat.recvd[n].tools) } :
            n \in { m \in 1..Len(chat.recvd) : chat.recvd[m].choices > 0 } }
      \ { -1 }

\* The index values of the tool calls the reader has accumulated.
AccumulatedIndexes ==
    { chat.toolCalls[i].Index.val : i \in 1..Len(chat.toolCalls) }

\* The iterator has returned because a channel was closed: neither the
\* consumer nor the context ended it.
IteratorRanOut == chat.ipc = "done" /\ chat.ended \in { "errs", "responses" }

\* The positions of out at which yield was called with the error e.
YieldedError(e) == { i \in 1..Len(chat.out) : chat.out[i].err = e }

\* C28: every tool call the stream's deltas name, the one with index 0
\* included, is among the accumulated tool calls of the streamed response.
C28_EveryToolCallAccumulated == WireIndexes \subseteq AccumulatedIndexes

\* C29: when stream.Recv failed with an error other than EOF and the
\* iterator has run to its end, the consumer was handed that error exactly
\* once.
C29_StreamErrorDeliveredOnce ==
    (IteratorRanOut /\ chat.streamErr \notin { "", "EOF" })
        => Cardinality(YieldedError(chat.streamErr)) = 1

\* C30: when the stream ended with EOF and the iterator has run to its end,
\* the consumer was handed every response the reader built, in order, and
\* then the end of the stream (nil, nil), once.
C30_ChunksThenOneEndSignal ==
    (IteratorRanOut /\ chat.streamErr = "EOF")
        => chat.out = [i \in 1..Len(chat.produced) |->
                          [resp |-> chat.produced[i], err |-> "nil"]]
                      \o << [resp |-> NoResponse, err |-> "nil"] >>

\* C31: once SendStreaming has started the reader goroutine, the goroutine
\* eventually ends with both channels closed, also when the consumer stops
\* early or the context is cancelled while the reader is about to send.
C31_ReaderTerminates ==
    (chat.ret = "iterator")
        ~> (chat.rpc = "exit" /\ chat.errsClosed /\ chat.responsesClosed)

\* ----------------------------------------------------------------- history
\* What the Send call has appended to the history before its request: the
\* tool messages of the FunctionCallResult contents that were converted,
\* and, when the conversion succeeded, the user's message.
SendAppended ==
    LET parts == partsToOpenAI(<< >>, chat.send.contents, 1, << >>)
    IN  IF chat.send.ret = "parts"
        THEN parts.history
        ELSE Append(parts.history, Message("user", parts.result, ""))

\* C32 as stated: a Send that failed leaves the history equal to the
\* pre-call history plus one new message, the user's.
C32_FailedSendKeepsUserMessage ==
    (chat.send.pc = "done" /\ chat.send.ret # "ok")
        => /\ Len(chat.history) = Len(chat.send.pre) + 1
           /\ IsPrefix(chat.send.pre, chat.history)
           /\ chat.history[Len(chat.history)].Role = "user"

\* C32, amended: no step removes or reorders an entry of the history.  Send
\* appends the tool messages of its FunctionCallResult contents and then the
\* user's message before the request, which carries them, and the
\* assistant's message after a successful response that has a choice.  A
\* Send that fails keeps what it appended: all of that after a schema or
\* request failure, and only the tool messages converted so far, without a
\* user message, after a conversion failure.
C32_HistoryAppendOnly ==
    /\ [][IsPrefix(chat.history, chat.history')]_vars
    /\ [](/\ chat.send.pc = "request"
             => /\ chat.history = chat.send.pre \o SendAppended
                /\ chat.send.req = chat.history
          /\ (chat.send.pc = "done" /\ chat.send.ret # "ok")
             => chat.history = chat.send.pre \o SendAppended
          /\ (chat.send.pc = "done" /\ chat.send.ret = "ok")
             => chat.history \in
                  { chat.send.pre \o SendAppended,
                    chat.send.pre \o SendAppended \o << AssistantMessage >> })

\* A Send whose request failed after it appended a tool message and the
\* user's message to a history that already holds an assistant's message.
C32_Witness ==
    /\ chat.send.pc = "done"
    /\ chat.send.ret = "create"
    /\ Len(chat.history) = Len(chat.send.pre) + 2
    /\ \E i \in 1..Len(chat.send.pre) : chat.send.pre[i] = AssistantMessage

\* ------------------------------------------------------------------ rounds
\* C33: in every round the tools of the first candidate's function calls
\* are executed once each in the order given; the results go back to the LLM
\* in that order in one SendFunctionResults call, made only after all calls
\* were executed; and RunOnce returns nil only after a response without
\* function calls.
C33_RoundsExecuteAndSend ==
    /\ IsPrefix(agent.round.executed, CallsOf(agent.round.response))
    /\ Len(agent.round.sent) <= 1
    /\ agent.round.sent # << >>
       => /\ agent.round.executed = CallsOf(agent.round.response)
          /\ agent.round.sent[1] =
                [i \in 1..Len(agent.round.executed) |->
                    FunctionCallResult(agent.round.executed[i])]
    /\ agent.ret = "nil"
       => /\ agent.round.response = agent.response
          /\ CallsOf(agent.response) = << >>
          /\ agent.round.sent = << >>

\* RunOnce has returned nil after a round whose function calls were
\* executed and answered.
C33_Witness ==
    /\ agent.ret = "nil"
    /\ agent.rounds = 1
    /\ agent.pc = "done"
    /\ Len(agent.response.candidates) > 0

\* The errors with which doFunctionCall fails before the tool runs, and
\* those with which it fails after.
FailuresBeforeExecute == { "unknown function", "parsing tool arguments" }
FailuresAfterExecute == { "execute", "converting function results" }

\* C34: when a function call names no tool of Tools, or its arguments do
\* not parse, or its tool fails, RunOnce has returned that error at that
\* call: only the calls before it (and, after a tool failure, the call
\* itself) were executed, every call before it gave a result, and nothing
\* was sent to the LLM in that round.  A response without candidates ends
\* RunOnce with an error.
C34_FailedCallEndsRunOnce ==
    /\ agent.pc = "calls"
       => /\ Len(agent.response.candidates) > 0
          /\ Len(agent.functionCallResults) = agent.k - 1
          /\ agent.round.executed = SubSeq(agent.calls, 1, agent.k - 1)
          /\ \A i \in 1..(agent.k - 1) : agent.calls[i].Name \in Tools
    /\ agent.ret \in FailuresBeforeExecute \cup FailuresAfterExecute
       => /\ agent.pc = "done"
          /\ agent.k \in 1..Len(agent.calls)
          /\ agent.round.sent = << >>
          /\ agent.round.executed =
                SubSeq(agent.calls, 1,
                       IF agent.ret \in FailuresBeforeExecute
                       THEN agent.k - 1 ELSE agent.k)
    /\ (agent.pc = "done" /\ agent.ret # "conversing with LLM"
           /\ Len(agent.response.candidates) = 0)
       => agent.ret = "no candidates"

\* RunOnce has returned at the second call of a response, which names an
\* unknown function, after the tool of the first call ran.
C34_Witness ==
    /\ agent.pc = "done"
    /\ agent.ret = "unknown function"
    /\ agent.k = 2
    /\ Len(agent.round.executed) = 1

\* ---------------------------------------------------------------- launcher
\* The errors that end run for a failed download or a failed resolution.
LaunchFailures ==
    { "downloading model", "downloading model chunks",
      "looking up host", "did not return IPs" }

\* C35: llama-server is started only when every download the flags ask for
\* has succeeded and all workerCount hosts have resolved; no host is looked
\* up more than maxAttempts times; a lookup error ends the run only at the
\* bound; and after a failed download, a lookup that failed at the bound or
\* a host without IPs, run has returned without starting llama-server.
C35_StartOnlyAfterDownloadsAndLookups ==
    /\ launch.attempt <= maxAttempts
    /\ Len(launch.rpcHosts) <= workerCount
    /\ launch.pc \in { "start", "wait" } \/ launch.started
       => /\ launch.downloaded = Requested
          /\ launch.rpcHosts = [w \in 1..workerCount |-> w - 1]
    /\ launch.pc = "lookup" => launch.attempt < maxAttempts
    /\ launch.ret = "looking up host" => launch.attempt = maxAttempts
    /\ launch.ret \in LaunchFailures
       => launch.pc = "done" /\ ~launch.started

\* The lookup of the last worker's host failed for the hundredth time,
\* after the model and its chunks were downloaded: run has returned.
C35_Witness ==
    /\ launch.ret = "looking up host"
    /\ launch.i = workerCount - 1
    /\ launch.attempt = maxAttempts
    /\ launch.modelURL
    /\ launch.chunks > 0
    /\ launch.downloaded = Requested

\* ------------------------------------------------------------------ kubectl
\* The command has the argument a.
HasArg(a) == \E i \in 1..Len(kget.command) : kget.command[i] = << a >>

\* The command selects the namespace ns: "--namespace" followed by ns.
SelectsNamespace(ns) ==
    \E i \in 1..(Len(kget.command) - 1) :
        /\ kget.command[i] = << "--namespace" >>
        /\ kget.command[i + 1] = << ns >>

\* C36: the command Execute built lists all namespaces when AllNamespaces
\* is true, and only the given namespace when Namespace is passed (and
\* AllNamespaces is not), whatever the other parameters are.
C36_NamespaceSelection ==
    kget.pc = "done"
        => /\ kget.x.AllNamespaces
              => HasArg("--all-namespaces") /\ ~HasArg("--namespace")
           /\ (kget.x.Namespace # "" /\ ~kget.x.AllNamespaces)
              => /\ SelectsNamespace(kget.x.Namespace)
                 /\ ~HasArg("--all-namespaces")

====
